---- MODULE Spec2Model ----
(***************************************************************************)
(* Model of IntelligentMCPAgent (src/llm/agent.py): its context-budgeting  *)
(* and response-extraction helpers, its LLM-calling methods and the         *)
(* analyze-and-generate command of main.                                    *)
(*                                                                         *)
(* Python strings are modelled as sequences of one-character strings, so   *)
(* that slicing, splitting, searching and concatenation are computed on    *)
(* the characters themselves.                                               *)
(***************************************************************************)
EXTENDS Integers, Sequences, FiniteSets, TLC

VARIABLES
    \* _truncate_files_to_token_budget (agent.py:228-277)
    file_contents,      \* argument: the ordered list of "path:content" strings
    token_budget,       \* argument: the budget in estimated tokens
    total_tokens,       \* local: running counter of used tokens
    truncated_files,    \* local: the list being built and returned
    idx,                \* position of the for loop in file_contents
    tpc,                \* "idle" | "loop" | "done"
    \* _clean_json_response (agent.py:53-96)
    response_text,      \* argument: a Python value (None or a str)
    cleaned,            \* local: the text selected so far
    outcome,            \* how the call ended: none yet, a return or a raise
    cpc,                \* "idle" | "start" | "blocks" | "span" | "simple" | "validate" | "done"
    \* one invocation of an LLM-calling method of IntelligentMCPAgent
    stage,              \* the method being run, "none" when there is none
    spc,                \* "idle" | "call" | "await" | "reply" | "except" | "done"
    raw_response,       \* response.choices[0].message.content: None or a str
    caught,             \* the exception raised inside the try block, if any
    result,             \* how the method ended: none yet, a return or a raise
    requests,           \* the methods that issued a chat completion request, in order
    outstanding,        \* the number of requests awaiting their reply
    \* main, command analyze-and-generate (agent.py:971-1053)
    openai_available,   \* OPENAI_AVAILABLE
    ppc,                \* "idle" | "start" | "truncate" | a method name | "result" | "except" | "exited"
    important_files,    \* local of main, also the argument of the stages
    codebase_analysis,  \* local of main, also the argument of the stages
    mcp_tools,          \* local of main, also the argument of the stages
    documentation,      \* local of main, also the argument of the stages
    server_template,    \* local of main
    error,              \* the exception caught by main
    stdout,             \* the JSON results printed to standard output
    stderr,             \* the JSON results printed to standard error
    exit_status,        \* the status the process exited with, -1 while it runs
    \* the description of the repository the caller supplies
    analysis,           \* input_data["analysis"] / file_structure: a dict or None
    \* one call of a function of main.py (lines 74-215)
    call,               \* the function called, "none" when there is none
    file_paths,         \* argument of detect_languages_from_files: files.keys()
    agent_available,    \* the global AGENT_AVAILABLE: "undefined" | "true" | "false"
    recursion_depth,    \* the activations of analyze_from_structured_data entered
    ret,                \* how the call ended: none yet, a return or a raise
    \* executions of _fallback_file_selection (agent.py:181-219)
    tree_structure,     \* argument: the project tree, a text
    runs                \* the lists returned by the executions so far

tvars == <<file_contents, token_budget, total_tokens, truncated_files, idx, tpc>>
cvars == <<response_text, cleaned, outcome, cpc>>
svars == <<stage, spc, raw_response, caught, result, requests, outstanding>>
args == <<important_files, codebase_analysis, mcp_tools, documentation>>
mvars == <<openai_available, ppc, server_template, error, stdout, stderr, exit_status>>
pvars == <<args, mvars>>
dvars == <<call, file_paths, agent_available, recursion_depth, ret>>
fvars == <<tree_structure, runs>>
hvars == <<analysis, dvars, fvars>>
vars == <<tvars, cvars, svars, pvars, hvars>>

\* no method of the agent is running
StageIdle ==
    /\ stage = "none"
    /\ spc = "idle"
    /\ raw_response = [type |-> "NoneType"]
    /\ caught = [kind |-> "none"]
    /\ result = [kind |-> "none"]
    /\ requests = <<>>
    /\ outstanding = 0

\* main is not running
MainIdle ==
    /\ openai_available = TRUE
    /\ ppc = "idle"
    /\ server_template = [type |-> "NoneType"]
    /\ error = [kind |-> "none"]
    /\ stdout = <<>>
    /\ stderr = <<>>
    /\ exit_status = 0 - 1

\* no argument was passed
NoArguments ==
    /\ important_files = <<>>
    /\ codebase_analysis = [type |-> "NoneType"]
    /\ mcp_tools = [type |-> "NoneType"]
    /\ documentation = [type |-> "NoneType"]

\* no analysis was passed
NoAnalysis == analysis = [type |-> "NoneType"]

\* no function of main.py is running and no fallback selection was made
HelpersIdle ==
    /\ call = "none"
    /\ file_paths = {}
    /\ agent_available = "undefined"
    /\ recursion_depth = 0
    /\ ret = [kind |-> "none"]
    /\ tree_structure = <<>>
    /\ runs = <<>>

-----------------------------------------------------------------------------
(* Generic string helpers (Python str primitives).                         *)

\* the first position >= k of the character c in s, 0 if there is none
RECURSIVE FindFrom(_, _, _)
FindFrom(s, c, k) ==
    IF k > Len(s) THEN 0
    ELSE IF s[k] = c THEN k
    ELSE FindFrom(s, c, k + 1)

\* c in s
Contains(s, c) == FindFrom(s, c, 1) # 0

\* s[:n] for n >= 0
Head_(s, n) == SubSeq(s, 1, IF n < Len(s) THEN n ELSE Len(s))

\* s[-n:] for n >= 0; in Python -0 is 0, so s[-0:] is the whole string
Tail_(s, n) ==
    IF n = 0 THEN s
    ELSE SubSeq(s, (IF n < Len(s) THEN Len(s) - n ELSE 0) + 1, Len(s))

\* the decimal digits of a natural number, as str(n) / f"{n}" gives them
Digit(d) == <<"0", "1", "2", "3", "4", "5", "6", "7", "8", "9">>[d + 1]

RECURSIVE Decimal(_)
Decimal(n) ==
    IF n < 10 THEN <<Digit(n)>>
    ELSE Decimal(n \div 10) \o <<Digit(n % 10)>>

NL == "\n"

-----------------------------------------------------------------------------
(* Token-budget truncation.                                                *)

\* line 226: len(text) // 3
TokenDivisor == 3

\* _estimate_tokens
estimate_tokens(text) == Len(text) \div TokenDivisor

\* line 250: chars_to_keep = remaining_budget * 3
CharsPerToken == 3

\* file_content.split(':', 1) of an entry that contains ':'
FileName(entry) == SubSeq(entry, 1, FindFrom(entry, ":", 1) - 1)
FileText(entry) == SubSeq(entry, FindFrom(entry, ":", 1) + 1, Len(entry))

\* "... [Content truncated - "
MarkerStem ==
    <<".", ".", ".", " ", "[", "C", "o", "n", "t", "e", "n", "t", " ",
      "t", "r", "u", "n", "c", "a", "t", "e", "d", " ", "-", " ">>

\* " total chars]"
MarkerTotal ==
    <<" ", "t", "o", "t", "a", "l", " ", "c", "h", "a", "r", "s", "]">>

\* f"\n\n... [Content truncated - {len(content)} total chars] ...\n\n"
MiddleMarker(content) ==
    <<NL, NL>> \o MarkerStem \o Decimal(Len(content)) \o MarkerTotal
        \o <<" ", ".", ".", ".", NL, NL>>

\* f"\n... [Content truncated - {len(content)} total chars]"
EndMarker(content) ==
    <<NL>> \o MarkerStem \o Decimal(Len(content)) \o MarkerTotal

\* remaining_budget > 100
MinRemaining == 100

\* chars_to_keep > 1000
SplitThreshold == 1000

\* int(chars_to_keep * 0.8) and int(chars_to_keep * 0.2): the double products
\* truncate to floor(4n/5) and floor(n/5) for every n below 3,000,000
KeepStart(chars_to_keep) == (chars_to_keep * 4) \div 5
KeepEnd(chars_to_keep) == chars_to_keep \div 5

\* lines 253-267: the content kept of a file that does not fit whole
TruncatedContent(content, chars_to_keep) ==
    IF Len(content) > chars_to_keep
    THEN IF chars_to_keep > SplitThreshold
         THEN Head_(content, KeepStart(chars_to_keep))
                  \o MiddleMarker(content)
                  \o Tail_(content, KeepEnd(chars_to_keep))
         ELSE Head_(content, chars_to_keep) \o EndMarker(content)
    ELSE content

\* line 242: the file fits within the budget
Fits(used, content, budget) == used + estimate_tokens(content) <= budget

\* (mutant) the room test taken inclusively
HasRoom_Inclusive(remaining_budget) == remaining_budget >= MinRemaining

\* line 249: there is meaningful space left
HasRoom(remaining_budget) == remaining_budget > MinRemaining

\* (mutant) the truncated entry rebuilt without its path
JoinEntry_NoPath(filename, content) == <<":">> \o content

\* line 269: f"{filename}:{truncated_content}"
JoinEntry(filename, content) == filename \o <<":">> \o content

\* (mutant) the counter left as it was when the truncated file is appended
AfterTruncation_Stale(used, budget) == used

\* line 270: total_tokens after the truncated file was appended
AfterTruncation(used, budget) == budget

\* (mutant) an entry without ':' ends the loop instead of being skipped
SkipMalformed_Break ==
    /\ tpc = "loop"
    /\ idx <= Len(file_contents)
    /\ ~Contains(file_contents[idx], ":")
    /\ tpc' = "done"
    /\ UNCHANGED <<file_contents, token_budget, total_tokens, truncated_files, idx>>

\* lines 236-237: an entry without ':' is skipped
SkipMalformed ==
    /\ tpc = "loop"
    /\ idx <= Len(file_contents)
    /\ ~Contains(file_contents[idx], ":")
    /\ idx' = idx + 1
    /\ UNCHANGED <<file_contents, token_budget, total_tokens, truncated_files, tpc>>

\* lines 239-245: the file fits whole
AdmitWhole ==
    /\ tpc = "loop"
    /\ idx <= Len(file_contents)
    /\ Contains(file_contents[idx], ":")
    /\ Fits(total_tokens, FileText(file_contents[idx]), token_budget)
    /\ truncated_files' = Append(truncated_files, file_contents[idx])
    /\ total_tokens' = total_tokens + estimate_tokens(FileText(file_contents[idx]))
    /\ idx' = idx + 1
    /\ UNCHANGED <<file_contents, token_budget, tpc>>

\* lines 246-271: the file does not fit and there is room for a part of it
AdmitTruncated ==
    /\ tpc = "loop"
    /\ idx <= Len(file_contents)
    /\ Contains(file_contents[idx], ":")
    /\ ~Fits(total_tokens, FileText(file_contents[idx]), token_budget)
    /\ HasRoom(token_budget - total_tokens)
    /\ LET remaining_budget == token_budget - total_tokens
           chars_to_keep == remaining_budget * CharsPerToken
           entry == file_contents[idx]
       IN  truncated_files' =
               Append(truncated_files,
                      JoinEntry(FileName(entry),
                                TruncatedContent(FileText(entry), chars_to_keep)))
    /\ total_tokens' = AfterTruncation(total_tokens, token_budget)
    /\ tpc' = "done"
    /\ UNCHANGED <<file_contents, token_budget, idx>>

\* (mutant) with no room left the loop goes on to the next entry
StopNoRoom_Continue ==
    /\ tpc = "loop"
    /\ idx <= Len(file_contents)
    /\ Contains(file_contents[idx], ":")
    /\ ~Fits(total_tokens, FileText(file_contents[idx]), token_budget)
    /\ ~HasRoom(token_budget - total_tokens)
    /\ idx' = idx + 1
    /\ UNCHANGED <<file_contents, token_budget, total_tokens, truncated_files, tpc>>

\* lines 272-274: the file does not fit and no meaningful room is left
StopNoRoom ==
    /\ tpc = "loop"
    /\ idx <= Len(file_contents)
    /\ Contains(file_contents[idx], ":")
    /\ ~Fits(total_tokens, FileText(file_contents[idx]), token_budget)
    /\ ~HasRoom(token_budget - total_tokens)
    /\ tpc' = "done"
    /\ UNCHANGED <<file_contents, token_budget, total_tokens, truncated_files, idx>>

\* lines 235, 276-277: the loop ran out of entries; the list is returned
LoopExhausted ==
    /\ tpc = "loop"
    /\ idx > Len(file_contents)
    /\ tpc' = "done"
    /\ UNCHANGED <<file_contents, token_budget, total_tokens, truncated_files, idx>>

-----------------------------------------------------------------------------
(* Inputs of the truncation runs.                                          *)

MaxFiles == 3

ContentPattern == <<"a", "b", ":", "c", "d", "e", "f">>

\* a content of n characters whose characters identify their position mod 7
ContentOf(n) == [k \in 1..n |-> ContentPattern[((k - 1) % 7) + 1]]

ContentSizes == {0, 29, 300, 1007, 1500}

PathOf(n) == <<"f">> \o Decimal(n)

EntryPool ==
    {PathOf(n) \o <<":">> \o ContentOf(n) : n \in ContentSizes}
        \cup {<<"R", "E", "A", "D", "M", "E">>}

BudgetPool == {0 - 1, 0, 100, 109, 110, 333, 334, 400, 700}

FileLists == UNION {[1..n -> EntryPool] : n \in 0..MaxFiles}

CleanIdle ==
    /\ response_text = [type |-> "NoneType"]
    /\ cleaned = <<>>
    /\ outcome = [kind |-> "none"]
    /\ cpc = "idle"

TruncateInit ==
    /\ file_contents \in FileLists
    /\ token_budget \in BudgetPool
    /\ total_tokens = 0
    /\ truncated_files = <<>>
    /\ idx = 1
    /\ tpc = "loop"
    /\ CleanIdle
    /\ StageIdle
    /\ MainIdle
    /\ NoArguments
    /\ NoAnalysis
    /\ HelpersIdle

TruncateNext ==
    \/ SkipMalformed /\ UNCHANGED <<cvars, svars, pvars, hvars>>
    \/ AdmitWhole /\ UNCHANGED <<cvars, svars, pvars, hvars>>
    \/ AdmitTruncated /\ UNCHANGED <<cvars, svars, pvars, hvars>>
    \/ StopNoRoom /\ UNCHANGED <<cvars, svars, pvars, hvars>>
    \/ LoopExhausted /\ UNCHANGED <<cvars, svars, pvars, hvars>>

TruncateSpec == TruncateInit /\ [][TruncateNext]_vars

-----------------------------------------------------------------------------
(* Properties of the token-budget truncation.                              *)

IsWellFormed(entry) == Contains(entry, ":")

\* the entries of the input that have a path and a content, in input order
WellFormed(list) == SelectSeq(list, IsWellFormed)

\* sum of floor(len(content)/3) over a list of well-formed entries
RECURSIVE SumTokens(_)
SumTokens(list) ==
    IF list = <<>> THEN 0
    ELSE (Len(FileText(Head(list))) \div 3) + SumTokens(Tail(list))

\* position in the input of the first well-formed entry whose tokens, added to
\* those of the well-formed entries before it, pass the budget; 0 if none
RECURSIVE OverflowFrom(_, _, _, _)
OverflowFrom(list, budget, j, used) ==
    IF j > Len(list) THEN 0
    ELSE IF ~IsWellFormed(list[j]) THEN OverflowFrom(list, budget, j + 1, used)
    ELSE IF used + (Len(FileText(list[j])) \div 3) > budget THEN j
    ELSE OverflowFrom(list, budget, j + 1, used + (Len(FileText(list[j])) \div 3))

FirstOverflow == OverflowFrom(file_contents, token_budget, 1, 0)

\* the well-formed entries before position k, and their tokens
WellFormedBefore(k) == WellFormed(SubSeq(file_contents, 1, k - 1))
UsedBefore(k) == SumTokens(WellFormedBefore(k))

Returned == tpc = "done"

\* the last returned entry is not the input entry it comes from
LastWasTruncated ==
    /\ Returned
    /\ truncated_files # <<>>
    /\ truncated_files[Len(truncated_files)]
           # WellFormed(file_contents)[Len(truncated_files)]

\* C1: for every budget >= 0 the estimated tokens of the returned entries,
\* summed, exceed the budget by at most one token, also when the last
\* returned entry was truncated and carries the marker.
C1_WithinBudget ==
    (Returned /\ token_budget >= 0)
        => SumTokens(truncated_files) <= token_budget + 1

\* C2 (as stated): the returned list is a prefix of the input: entry i of the
\* result carries the path of entry i of the input, and all but the last
\* returned entry are identical to that input entry.
C2_PrefixOfInput ==
    Returned =>
        /\ Len(truncated_files) <= Len(file_contents)
        /\ \A k \in 1..Len(truncated_files) :
              /\ IsWellFormed(file_contents[k])
              /\ FileName(truncated_files[k]) = FileName(file_contents[k])
              /\ (k < Len(truncated_files) => truncated_files[k] = file_contents[k])

\* C2 (amended): the returned list is a prefix of the well-formed entries of
\* the input, in input order: entry i of the result carries the path of the
\* i-th well-formed input entry, and all but the last returned entry are
\* identical to it.
C2_PrefixOfWellFormed ==
    Returned =>
        LET wf == WellFormed(file_contents)
        IN  /\ Len(truncated_files) <= Len(wf)
            /\ Len(truncated_files) <= Len(file_contents)
            /\ \A k \in 1..Len(truncated_files) :
                  /\ FileName(truncated_files[k]) = FileName(wf[k])
                  /\ (k < Len(truncated_files) => truncated_files[k] = wf[k])

\* a malformed entry comes first, two entries were returned, the last truncated
C2_Witness ==
    /\ LastWasTruncated
    /\ Len(truncated_files) >= 2
    /\ ~IsWellFormed(file_contents[1])

\* C3: with a budget >= 0 the counter of used tokens never decreases, stays
\* within 0..budget after every processed entry, and equals the budget
\* exactly once a truncated entry has been admitted.
C3_CounterWithinBudget ==
    [][token_budget >= 0 =>
          /\ total_tokens' >= total_tokens
          /\ 0 <= total_tokens'
          /\ total_tokens' <= token_budget
          /\ (tpc' = "done" /\ Len(truncated_files') > Len(truncated_files)
                 => total_tokens' = token_budget)]_vars

\* a truncated entry was admitted after a whole one and the counter moved up
C3_Witness ==
    /\ LastWasTruncated
    /\ Len(truncated_files) >= 2
    /\ token_budget > 0
    /\ total_tokens = token_budget

\* C4: processing stops at the first well-formed entry that does not fit
\* whole: the loop never moves past it and nothing after it is returned.
C4_StopsAtFirstOverflow ==
    FirstOverflow # 0 =>
        /\ idx <= FirstOverflow
        /\ Len(truncated_files) <= Len(WellFormedBefore(FirstOverflow)) + 1
        /\ \A k \in 1..Len(truncated_files) :
              FileName(truncated_files[k])
                  = FileName(WellFormed(SubSeq(file_contents, 1, FirstOverflow))[k])

\* the run ended at an entry that did not fit, and a later entry would have
\* fitted alone in the budget that was left
C4_Witness ==
    /\ Returned
    /\ FirstOverflow # 0
    /\ \E j \in (FirstOverflow + 1)..Len(file_contents) :
          /\ IsWellFormed(file_contents[j])
          /\ FileName(file_contents[j]) # FileName(file_contents[FirstOverflow])
          /\ UsedBefore(FirstOverflow) + (Len(FileText(file_contents[j])) \div 3)
                 <= token_budget

\* C5: for the first entry that does not fit, with remaining = budget - used
\* and charsAllowed = 3 * remaining: nothing is emitted when remaining <= 100;
\* else one entry with the original path whose content is the first
\* floor(0.8 charsAllowed) characters, the marker and the last
\* floor(0.2 charsAllowed) characters when charsAllowed > 1000, and the first
\* charsAllowed characters and the marker otherwise.
C5_TruncatedShape ==
    (Returned /\ FirstOverflow # 0) =>
        LET entry == file_contents[FirstOverflow]
            content == FileText(entry)
            before == Len(WellFormedBefore(FirstOverflow))
            remaining == token_budget - UsedBefore(FirstOverflow)
            charsAllowed == remaining * 3
            first == (8 * charsAllowed) \div 10
            last == (2 * charsAllowed) \div 10
        IN  IF remaining <= 100
            THEN Len(truncated_files) = before
            ELSE /\ Len(truncated_files) = before + 1
                 /\ FileName(truncated_files[before + 1]) = FileName(entry)
                 /\ FileText(truncated_files[before + 1]) =
                       IF charsAllowed > 1000
                       THEN SubSeq(content, 1, first)
                                \o MiddleMarker(content)
                                \o SubSeq(content, Len(content) - last + 1, Len(content))
                       ELSE SubSeq(content, 1, charsAllowed) \o EndMarker(content)

\* an entry was cut into a head and a tail around the marker
C5_Witness ==
    /\ LastWasTruncated
    /\ FirstOverflow # 0
    /\ (token_budget - UsedBefore(FirstOverflow)) * 3 > 1000

\* C6: an entry without ':' is skipped: it adds nothing to the result, uses no
\* budget and does not end the loop; every returned entry contains ':'.
C6_MalformedSkipped ==
    [][/\ (tpc = "loop" /\ idx <= Len(file_contents)
               /\ ~IsWellFormed(file_contents[idx]))
           => /\ truncated_files' = truncated_files
              /\ total_tokens' = total_tokens
              /\ tpc' = "loop"
              /\ idx' = idx + 1
       /\ \A k \in 1..Len(truncated_files') : IsWellFormed(truncated_files'[k])]_vars

\* an entry was admitted after a malformed one had been passed over
C6_Witness ==
    /\ Len(file_contents) >= 2
    /\ ~IsWellFormed(file_contents[1])
    /\ idx > 2
    /\ Len(truncated_files) >= 1

-----------------------------------------------------------------------------
(* Python values and str methods used by _clean_json_response.             *)

None == [type |-> "NoneType"]
Str(chars) == [type |-> "str", val |-> chars]

\* (mutant) only None counts as no response
Truthy_NotNone(value) == value.type # "NoneType"

\* bool(value) of None or a str, as the test of line 57 takes it
Truthy(value) == value.type = "str" /\ value.val # <<>>

\* (mutant) no text counts as empty
IsEmptyText_Never(text) == FALSE

\* line 93: not cleaned, of a str
IsEmptyText(text) == text = <<>>

\* str.isspace of one character; the class \s of re
IsSpace(c) == c \in {" ", "\n", "\t", "\r", "\f"}

RECURSIVE LStrip(_)
LStrip(text) ==
    IF text # <<>> /\ IsSpace(Head(text)) THEN LStrip(Tail(text)) ELSE text

RECURSIVE RStrip(_)
RStrip(text) ==
    IF text # <<>> /\ IsSpace(text[Len(text)])
    THEN RStrip(SubSeq(text, 1, Len(text) - 1))
    ELSE text

\* (mutant) only the left side is trimmed
Strip_LeftOnly(text) == LStrip(text)

\* str.strip()
Strip(text) == RStrip(LStrip(text))

\* str.startswith / str.endswith
StartsWith(text, prefix) ==
    Len(prefix) <= Len(text) /\ SubSeq(text, 1, Len(prefix)) = prefix

EndsWith(text, suffix) ==
    /\ Len(suffix) <= Len(text)
    /\ SubSeq(text, Len(text) - Len(suffix) + 1, Len(text)) = suffix

\* text[n:]
DropFirst(text, n) == SubSeq(text, n + 1, Len(text))

\* text[:-n] for n > 0
DropLast(text, n) == SubSeq(text, 1, Len(text) - n)

\* the backquote character U+0060, which a TLA+ string literal cannot hold
BQ == "<backquote>"

Fence == <<BQ, BQ, BQ>>
FenceJson == <<BQ, BQ, BQ, "j", "s", "o", "n">>

\* lower case of the letters the pattern names (re.IGNORECASE)
Lower(c) ==
    CASE c = "J" -> "j"
      [] c = "S" -> "s"
      [] c = "O" -> "o"
      [] c = "N" -> "n"
      [] OTHER -> c

-----------------------------------------------------------------------------
(* line 64: the pattern  FENCE (?:json)? \s* \n? (.*?) \n? FENCE  with          *)
(* re.DOTALL | re.IGNORECASE, where FENCE is three backquotes,             *)
(* matched as the backtracking engine does: each operator tries its        *)
(* alternatives in the engine's order and yields the first that succeeds.  *)
(* A match is <<first, last>>, the positions of group 1; <<>> is no match. *)

\* the literal FENCE at position p
FenceAt(text, p) ==
    /\ p >= 1
    /\ p + 2 <= Len(text)
    /\ text[p] = BQ /\ text[p + 1] = BQ /\ text[p + 2] = BQ

\* the last position >= e of a FENCE, 0 if there is none
RECURSIVE LastFence(_, _, _)
LastFence(text, e, k) ==
    IF k < e THEN 0
    ELSE IF FenceAt(text, k) THEN k
    ELSE LastFence(text, e, k - 1)

\* (mutant) the group taken greedily: it runs to the last FENCE of the text
CloseFrom_Greedy(text, g, e) ==
    LET q == LastFence(text, e, Len(text))
    IN  IF q = 0 THEN <<>>
        ELSE IF q > e /\ text[q - 1] = NL THEN <<g, q - 2>>
        ELSE <<g, q - 1>>

\* (.*?)\n?FENCE with the group starting at g: the group grows from the empty
\* string one character at a time; at each end e, \n? is tried before nothing
RECURSIVE CloseFrom(_, _, _)
CloseFrom(text, g, e) ==
    IF e > Len(text) THEN <<>>
    ELSE IF text[e] = NL /\ FenceAt(text, e + 1) THEN <<g, e - 1>>
    ELSE IF FenceAt(text, e) THEN <<g, e - 1>>
    ELSE CloseFrom(text, g, e + 1)

\* \n?(.*?)\n?FENCE at position w: the newline is taken first, then left
AfterWhitespace(text, w) ==
    IF w <= Len(text) /\ text[w] = NL
    THEN LET taken == CloseFrom(text, w + 1, w + 1)
         IN  IF taken # <<>> THEN taken ELSE CloseFrom(text, w, w)
    ELSE CloseFrom(text, w, w)

\* the length of the run of whitespace that starts at position a
RECURSIVE SpaceRun(_, _)
SpaceRun(text, a) ==
    IF a <= Len(text) /\ IsSpace(text[a]) THEN 1 + SpaceRun(text, a + 1) ELSE 0

\* \s*\n?(.*?)\n?FENCE at position a: \s* takes n characters, the longest run
\* first, and gives them back one by one
RECURSIVE WhitespaceThenRest(_, _, _)
WhitespaceThenRest(text, a, n) ==
    LET rest == AfterWhitespace(text, a + n)
    IN  IF rest # <<>> THEN rest
        ELSE IF n = 0 THEN <<>>
        ELSE WhitespaceThenRest(text, a, n - 1)

\* "json" in any case at position a
JsonTagAt(text, a) ==
    /\ a + 3 <= Len(text)
    /\ Lower(text[a]) = "j" /\ Lower(text[a + 1]) = "s"
    /\ Lower(text[a + 2]) = "o" /\ Lower(text[a + 3]) = "n"

\* the whole pattern at position p: (?:json)? takes the tag first, then not
BlockAt(text, p) ==
    IF ~FenceAt(text, p) THEN <<>>
    ELSE LET a == p + 3
             untagged == WhitespaceThenRest(text, a, SpaceRun(text, a))
         IN  IF JsonTagAt(text, a)
             THEN LET tagged ==
                          WhitespaceThenRest(text, a + 4, SpaceRun(text, a + 4))
                  IN  IF tagged # <<>> THEN tagged ELSE untagged
             ELSE untagged

\* the first match of the pattern at or after position p
RECURSIVE BlockSearch(_, _)
BlockSearch(text, p) ==
    IF p > Len(text) THEN <<>>
    ELSE IF BlockAt(text, p) # <<>> THEN BlockAt(text, p)
    ELSE BlockSearch(text, p + 1)

\* re.findall(json_block_pattern, response_text, ...)[0], as positions
FirstBlock(text) == BlockSearch(text, 1)

-----------------------------------------------------------------------------
(* line 73: r'(\{.*\}|\[.*\])' with re.DOTALL.                             *)

\* the last position k' with p < k' <= k of the character c, 0 if there is none
RECURSIVE LastBetween(_, _, _, _)
LastBetween(text, c, p, k) ==
    IF k <= p THEN 0
    ELSE IF text[k] = c THEN k
    ELSE LastBetween(text, c, p, k - 1)

\* the last position > p of the character c, 0 if there is none
LastAfter(text, c, p) == LastBetween(text, c, p, Len(text))

\* (mutant) .* taken lazily: the opener runs to the first closer after it
SpanAt_Lazy(text, p) ==
    IF text[p] = "{" /\ FindFrom(text, "}", p + 1) # 0
    THEN <<p, FindFrom(text, "}", p + 1)>>
    ELSE IF text[p] = "[" /\ FindFrom(text, "]", p + 1) # 0
    THEN <<p, FindFrom(text, "]", p + 1)>>
    ELSE <<>>

\* the pattern at position p: \{.*\} first, then \[.*\]; the greedy .* runs to
\* the end of the text and backs up to the last closing character
SpanAt(text, p) ==
    IF text[p] = "{" /\ LastAfter(text, "}", p) # 0
    THEN <<p, LastAfter(text, "}", p)>>
    ELSE IF text[p] = "[" /\ LastAfter(text, "]", p) # 0
    THEN <<p, LastAfter(text, "]", p)>>
    ELSE <<>>

RECURSIVE SpanSearch(_, _)
SpanSearch(text, p) ==
    IF p > Len(text) THEN <<>>
    ELSE IF SpanAt(text, p) # <<>> THEN SpanAt(text, p)
    ELSE SpanSearch(text, p + 1)

\* re.findall(json_pattern, response_text, re.DOTALL)[0], as positions
FirstSpan(text) == SpanSearch(text, 1)

\* the text of a match
Group(text, match) == SubSeq(text, match[1], match[2])

\* (mutant) the text is trimmed and no marker is removed
SimpleCleaning_TrimOnly(text) == Strip(text)

\* lines 81-90: the original simple cleaning
SimpleCleaning(text) ==
    LET trimmed == Strip(text)
        opened == IF StartsWith(trimmed, FenceJson) THEN DropFirst(trimmed, 7)
                  ELSE IF StartsWith(trimmed, Fence) THEN DropFirst(trimmed, 3)
                  ELSE trimmed
        closed == IF EndsWith(opened, Fence) THEN DropLast(opened, 3) ELSE opened
    IN  Strip(closed)

-----------------------------------------------------------------------------
(* _clean_json_response, one action per path through it.                   *)

Raise(type, msg) == [kind |-> "raise", type |-> type, msg |-> msg]
Return(value) == [kind |-> "return", value |-> value]

EmptyResponseError == Raise("ValueError", "Empty response from LLM")
EmptyContentError == Raise("ValueError", "Empty content after cleaning LLM response")

\* lines 57-58: no response text
RaiseEmptyResponse ==
    /\ cpc = "start"
    /\ ~Truthy(response_text)
    /\ outcome' = EmptyResponseError
    /\ cpc' = "done"
    /\ UNCHANGED <<response_text, cleaned>>

\* lines 64-69: a fenced block was found; its first match is used
TakeFencedBlock ==
    /\ cpc = "start"
    /\ Truthy(response_text)
    /\ FirstBlock(response_text.val) # <<>>
    /\ cleaned' = Strip(Group(response_text.val, FirstBlock(response_text.val)))
    /\ cpc' = "validate"
    /\ UNCHANGED <<response_text, outcome>>

\* lines 70-78: no fenced block, a {...} or [...] span was found
TakeJsonSpan ==
    /\ cpc = "start"
    /\ Truthy(response_text)
    /\ FirstBlock(response_text.val) = <<>>
    /\ FirstSpan(response_text.val) # <<>>
    /\ cleaned' = Strip(Group(response_text.val, FirstSpan(response_text.val)))
    /\ cpc' = "validate"
    /\ UNCHANGED <<response_text, outcome>>

\* lines 79-90: neither pattern matched
TakeSimpleCleaning ==
    /\ cpc = "start"
    /\ Truthy(response_text)
    /\ FirstBlock(response_text.val) = <<>>
    /\ FirstSpan(response_text.val) = <<>>
    /\ cleaned' = SimpleCleaning(response_text.val)
    /\ cpc' = "validate"
    /\ UNCHANGED <<response_text, outcome>>

\* lines 93-94: nothing is left after cleaning
RaiseEmptyContent ==
    /\ cpc = "validate"
    /\ IsEmptyText(cleaned)
    /\ outcome' = EmptyContentError
    /\ cpc' = "done"
    /\ UNCHANGED <<response_text, cleaned>>

\* line 96
ReturnCleaned ==
    /\ cpc = "validate"
    /\ ~IsEmptyText(cleaned)
    /\ outcome' = Return(cleaned)
    /\ cpc' = "done"
    /\ UNCHANGED <<response_text, cleaned>>

-----------------------------------------------------------------------------
(* Inputs of the cleaning runs: None, and the texts made of at most        *)
(* MaxPieces pieces of LLM output.                                          *)

MaxPieces == 4

Pieces ==
    {Fence, <<"j", "s", "o", "n">>, <<"J", "S", "O", "N">>,
     <<"{">>, <<"}">>, <<"[">>, <<"]">>, <<" ">>, <<NL>>, <<"1">>, <<"\"">>}

RECURSIVE Concat(_)
Concat(pieces) ==
    IF pieces = <<>> THEN <<>> ELSE Head(pieces) \o Concat(Tail(pieces))

Texts == {Concat(ps) : ps \in UNION {[1..n -> Pieces] : n \in 0..MaxPieces}}

TruncateIdle ==
    /\ file_contents = <<>>
    /\ token_budget = 0
    /\ total_tokens = 0
    /\ truncated_files = <<>>
    /\ idx = 1
    /\ tpc = "idle"

CleanInit ==
    /\ response_text \in {None} \cup {Str(t) : t \in Texts}
    /\ cleaned = <<>>
    /\ outcome = [kind |-> "none"]
    /\ cpc = "start"
    /\ TruncateIdle
    /\ StageIdle
    /\ MainIdle
    /\ NoArguments
    /\ NoAnalysis
    /\ HelpersIdle

CleanNext ==
    \/ RaiseEmptyResponse /\ UNCHANGED <<tvars, svars, pvars, hvars>>
    \/ TakeFencedBlock /\ UNCHANGED <<tvars, svars, pvars, hvars>>
    \/ TakeJsonSpan /\ UNCHANGED <<tvars, svars, pvars, hvars>>
    \/ TakeSimpleCleaning /\ UNCHANGED <<tvars, svars, pvars, hvars>>
    \/ RaiseEmptyContent /\ UNCHANGED <<tvars, svars, pvars, hvars>>
    \/ ReturnCleaned /\ UNCHANGED <<tvars, svars, pvars, hvars>>

CleanSpec == CleanInit /\ [][CleanNext]_vars

-----------------------------------------------------------------------------
(* json.loads (line 161), as far as accepting a text goes: objects, arrays, *)
(* strings without escape sequences, integers and the three literals.      *)
(* Each operator yields the position after what it read, 0 if it fails.    *)

IsJsonSpace(c) == c \in {" ", "\t", "\n", "\r"}

RECURSIVE SkipSpace(_, _)
SkipSpace(text, k) ==
    IF k <= Len(text) /\ IsJsonSpace(text[k]) THEN SkipSpace(text, k + 1) ELSE k

CharAt(text, k) == IF 1 <= k /\ k <= Len(text) THEN text[k] ELSE "<end>"

IsDigit(c) == c \in {"0", "1", "2", "3", "4", "5", "6", "7", "8", "9"}

\* the end of a string whose opening quote has been read
RECURSIVE StringEnd(_, _)
StringEnd(text, k) ==
    IF k > Len(text) THEN 0
    ELSE IF text[k] = "\"" THEN k + 1
    ELSE IF text[k] \in {"\\", "\n", "\t", "\r", "\f"} THEN 0
    ELSE StringEnd(text, k + 1)

RECURSIVE DigitsEnd(_, _)
DigitsEnd(text, k) ==
    IF IsDigit(CharAt(text, k)) THEN DigitsEnd(text, k + 1) ELSE k

IntegerEnd(text, k) ==
    IF CharAt(text, k) = "0" THEN k + 1
    ELSE IF IsDigit(CharAt(text, k)) THEN DigitsEnd(text, k)
    ELSE 0

LiteralEnd(text, k, word) ==
    IF k + Len(word) - 1 <= Len(text) /\ SubSeq(text, k, k + Len(word) - 1) = word
    THEN k + Len(word)
    ELSE 0

RECURSIVE ValueEnd(_, _)
RECURSIVE ElementsEnd(_, _)
RECURSIVE MembersEnd(_, _)

\* a value that starts at position k
ValueEnd(text, k) ==
    LET c == CharAt(text, k)
    IN  IF c = "{"
        THEN IF CharAt(text, SkipSpace(text, k + 1)) = "}"
             THEN SkipSpace(text, k + 1) + 1
             ELSE MembersEnd(text, SkipSpace(text, k + 1))
        ELSE IF c = "["
        THEN IF CharAt(text, SkipSpace(text, k + 1)) = "]"
             THEN SkipSpace(text, k + 1) + 1
             ELSE ElementsEnd(text, SkipSpace(text, k + 1))
        ELSE IF c = "\"" THEN StringEnd(text, k + 1)
        ELSE IF c = "-" THEN IntegerEnd(text, k + 1)
        ELSE IF IsDigit(c) THEN IntegerEnd(text, k)
        ELSE IF c = "t" THEN LiteralEnd(text, k, <<"t", "r", "u", "e">>)
        ELSE IF c = "f" THEN LiteralEnd(text, k, <<"f", "a", "l", "s", "e">>)
        ELSE IF c = "n" THEN LiteralEnd(text, k, <<"n", "u", "l", "l">>)
        ELSE 0

\* the elements of an array from position k on, up to its closing bracket
ElementsEnd(text, k) ==
    LET e == ValueEnd(text, k)
        after == SkipSpace(text, e)
    IN  IF e = 0 THEN 0
        ELSE IF CharAt(text, after) = "]" THEN after + 1
        ELSE IF CharAt(text, after) = ","
        THEN ElementsEnd(text, SkipSpace(text, after + 1))
        ELSE 0

\* the members of an object from position k on, up to its closing brace
MembersEnd(text, k) ==
    LET key == IF CharAt(text, k) = "\"" THEN StringEnd(text, k + 1) ELSE 0
        colon == SkipSpace(text, key)
        value == IF key # 0 /\ CharAt(text, colon) = ":"
                 THEN ValueEnd(text, SkipSpace(text, colon + 1))
                 ELSE 0
        after == SkipSpace(text, value)
    IN  IF value = 0 THEN 0
        ELSE IF CharAt(text, after) = "}" THEN after + 1
        ELSE IF CharAt(text, after) = ","
        THEN MembersEnd(text, SkipSpace(text, after + 1))
        ELSE 0

\* json.loads(text) does not raise JSONDecodeError
IsJson(text) ==
    LET e == ValueEnd(text, SkipSpace(text, 1))
    IN  e # 0 /\ SkipSpace(text, e) = Len(text) + 1

\* line 165: the error of a reply that does not decode
InvalidJsonError == Raise("ValueError", "Invalid JSON response from LLM")

-----------------------------------------------------------------------------
(* Properties of _clean_json_response.                                     *)

Cleaned == cpc = "done"

IsText(value) == value.type = "str"

\* the position of the first FENCE at or after position k, 0 if there is none
FenceFrom(text, k) ==
    IF \E p \in k..Len(text) : FenceAt(text, p)
    THEN CHOOSE p \in k..Len(text) :
             FenceAt(text, p) /\ \A r \in k..(p - 1) : ~FenceAt(text, r)
    ELSE 0

\* where the content of the first fenced block starts: after the opening
\* FENCE and its json tag, when it has one
BlockStart(text) ==
    FenceFrom(text, 1) + 3 + (IF JsonTagAt(text, FenceFrom(text, 1) + 3) THEN 4 ELSE 0)

\* the text holds an opening FENCE and, after it and its tag, a closing one
HasFencedBlock(text) ==
    FenceFrom(text, 1) # 0 /\ FenceFrom(text, BlockStart(text)) # 0

\* what stands between the opening and the closing FENCE of the first block
BlockContent(text) ==
    SubSeq(text, BlockStart(text), FenceFrom(text, BlockStart(text)) - 1)

AllSpace(text) == \A k \in 1..Len(text) : IsSpace(text[k])

\* C7 (as stated): for every non-empty text the call returns a string and
\* raises nothing.
C7_NeverRaises ==
    (Cleaned /\ Truthy(response_text)) => outcome.kind = "return"

\* C7 (amended): for every non-empty text the call either returns a non-empty
\* string or raises ValueError "Empty content after cleaning LLM response",
\* and nothing else; it raises for a text of whitespace only and for a text
\* whose first fenced block is empty.
C7_ReturnsOrEmptyContent ==
    (Cleaned /\ Truthy(response_text)) =>
        /\ \/ outcome.kind = "return" /\ outcome.value # <<>>
           \/ outcome = EmptyContentError
        /\ AllSpace(response_text.val) => outcome = EmptyContentError
        /\ (HasFencedBlock(response_text.val)
               /\ AllSpace(BlockContent(response_text.val)))
              => outcome = EmptyContentError

\* a text of whitespace only was refused
C7_Witness ==
    /\ Cleaned
    /\ Truthy(response_text)
    /\ AllSpace(response_text.val)
    /\ outcome = EmptyContentError

\* C8: called with "" or None the function raises ValueError "Empty response
\* from LLM" as its first step, with no pattern tried before, and the error is
\* not the one of a reply that fails to decode.
C8_EmptyRaisesAtOnce ==
    [][(cpc = "start" /\ (response_text = None \/ response_text = Str(<<>>)))
          => /\ cpc' = "done"
             /\ outcome' = Raise("ValueError", "Empty response from LLM")
             /\ outcome' # InvalidJsonError
             /\ cleaned' = cleaned]_vars

\* the empty string was refused
C8_Witness ==
    /\ Cleaned
    /\ response_text = Str(<<>>)
    /\ outcome = EmptyResponseError

\* C9 (as stated): a text that holds a fenced block yields the trimmed content
\* of its first block, whatever surrounds the block.
C9_FirstBlockReturned ==
    (Cleaned /\ IsText(response_text) /\ HasFencedBlock(response_text.val))
        => outcome = Return(Strip(BlockContent(response_text.val)))

\* C9 (amended): a text that holds a fenced block yields the trimmed content
\* of its first block when that is not empty, whatever surrounds the block,
\* and ValueError "Empty content after cleaning LLM response" when it is.
C9_FirstBlockOrEmptyContent ==
    (Cleaned /\ IsText(response_text) /\ HasFencedBlock(response_text.val))
        => IF AllSpace(BlockContent(response_text.val))
           THEN outcome = EmptyContentError
           ELSE outcome = Return(Strip(BlockContent(response_text.val)))

\* the block was returned although the brace scan would have found another text
C9_Witness ==
    /\ Cleaned
    /\ IsText(response_text)
    /\ HasFencedBlock(response_text.val)
    /\ outcome.kind = "return"
    /\ FirstSpan(response_text.val) # <<>>
    /\ outcome.value # Strip(Group(response_text.val, FirstSpan(response_text.val)))

\* C10: a text that is a well-formed JSON value comes back unchanged but for
\* the whitespace around it.
C10_JsonUnchanged ==
    (Cleaned /\ IsText(response_text) /\ IsJson(response_text.val))
        => outcome = Return(Strip(response_text.val))

------------------------------------------------------------------------------
(* The brace/bracket scan and the simple cleaning (C11, C12).               *)

IsOpener(c) == c = "{" \/ c = "["

CloserOf(c) == IF c = "{" THEN "}" ELSE "]"

\* the first position of an opening brace or bracket, 0 if there is none
RECURSIVE OpenerFrom(_, _)
OpenerFrom(text, k) ==
    IF k > Len(text) THEN 0
    ELSE IF IsOpener(text[k]) THEN k
    ELSE OpenerFrom(text, k + 1)

\* the position at which the nesting opened by the character at p, counted
\* from position k with depth open levels of that kind, closes: 0 if never
RECURSIVE BalanceFrom(_, _, _, _)
BalanceFrom(text, p, k, depth) ==
    IF k > Len(text) THEN 0
    ELSE IF text[k] = text[p] THEN BalanceFrom(text, p, k + 1, depth + 1)
    ELSE IF text[k] = CloserOf(text[p])
    THEN IF depth = 1 THEN k ELSE BalanceFrom(text, p, k + 1, depth - 1)
    ELSE BalanceFrom(text, p, k + 1, depth)

\* the closer that matches the opener at p
MatchingCloser(text, p) == BalanceFrom(text, p, p + 1, 1)

\* some brace is followed by a closing brace, or some bracket by a closing one
HasSpan(text) ==
    \E p \in 1..Len(text) : \E q \in (p + 1)..Len(text) :
        IsOpener(text[p]) /\ text[q] = CloserOf(text[p])

\* C11: with no fenced block in the text, the call returns the first balanced
\* span: from the first opening brace or bracket to the closer that matches
\* it, and nothing of what follows that closer.
C11_FirstBalancedSpan ==
    (/\ Cleaned
     /\ IsText(response_text)
     /\ ~HasFencedBlock(response_text.val)
     /\ OpenerFrom(response_text.val, 1) # 0
     /\ MatchingCloser(response_text.val, OpenerFrom(response_text.val, 1)) # 0)
        => outcome = Return(SubSeq(response_text.val,
                                   OpenerFrom(response_text.val, 1),
                                   MatchingCloser(response_text.val,
                                       OpenerFrom(response_text.val, 1))))

\* the trimmed text with a FENCE marker at its start and one at its end left out
Unfenced(text) ==
    LET t == Strip(text)
        lead == IF StartsWith(t, FenceJson) THEN 7
                ELSE IF StartsWith(t, Fence) THEN 3 ELSE 0
        trail == IF Len(t) - lead >= 3 /\ EndsWith(t, Fence) THEN 3 ELSE 0
    IN  Strip(SubSeq(t, lead + 1, Len(t) - trail))

\* C12 (as stated): a non-empty text with neither a complete fenced block nor a
\* brace/bracket span comes back trimmed, with no other character removed.
C12_RawTrimmed ==
    (/\ Cleaned
     /\ Truthy(response_text)
     /\ ~HasFencedBlock(response_text.val)
     /\ ~HasSpan(response_text.val))
        => outcome = Return(Strip(response_text.val))

\* C12 (amended): a non-empty text with neither a complete fenced block nor a
\* brace/bracket span comes back trimmed, less an unmatched FENCE marker
\* (with its json tag in lower case) at its start and one at its end, and
\* trimmed again; when nothing is left the call raises ValueError "Empty
\* content after cleaning LLM response".
C12_TrimmedLessMarkers ==
    (/\ Cleaned
     /\ Truthy(response_text)
     /\ ~HasFencedBlock(response_text.val)
     /\ ~HasSpan(response_text.val))
        => IF Unfenced(response_text.val) = <<>>
           THEN outcome = EmptyContentError
           ELSE outcome = Return(Unfenced(response_text.val))

\* an unmatched opening marker was removed by the simple cleaning
C12_Witness ==
    /\ Cleaned
    /\ Truthy(response_text)
    /\ ~HasFencedBlock(response_text.val)
    /\ ~HasSpan(response_text.val)
    /\ StartsWith(Strip(response_text.val), Fence)
    /\ outcome.kind = "return"
    /\ outcome.value # Strip(response_text.val)

------------------------------------------------------------------------------
(* The LLM-calling methods of IntelligentMCPAgent: one chat completion     *)
(* request, the handling of its reply, the except clause.                   *)

\* _clean_json_response as one call: its return or its raise
clean_json_response(value) ==
    IF ~Truthy(value) THEN EmptyResponseError
    ELSE LET text == value.val
             selected ==
                 IF FirstBlock(text) # <<>>
                 THEN Strip(Group(text, FirstBlock(text)))
                 ELSE IF FirstSpan(text) # <<>>
                 THEN Strip(Group(text, FirstSpan(text)))
                 ELSE SimpleCleaning(text)
         IN  IF IsEmptyText(selected) THEN EmptyContentError ELSE Return(selected)

\* json.loads(text) of a text that decodes: the value, kept as its text
Json(text) == [type |-> "json", text |-> text]

\* the Python type of json.loads(text)
JsonKind(text) ==
    LET c == CharAt(text, SkipSpace(text, 1))
    IN  IF c = "{" THEN "dict"
        ELSE IF c = "[" THEN "list"
        ELSE IF c = "\"" THEN "str"
        ELSE IF c \in {"t", "f"} THEN "bool"
        ELSE IF c = "n" THEN "NoneType"
        ELSE "int"

\* the elements of an array from position k on, when all of them are strings
RECURSIVE StringsEnd(_, _)
StringsEnd(text, k) ==
    LET e == IF CharAt(text, k) = "\"" THEN StringEnd(text, k + 1) ELSE 0
        after == SkipSpace(text, e)
    IN  IF e = 0 THEN 0
        ELSE IF CharAt(text, after) = "]" THEN after + 1
        ELSE IF CharAt(text, after) = ","
        THEN StringsEnd(text, SkipSpace(text, after + 1))
        ELSE 0

\* line 168: isinstance(v, list) and all(isinstance(f, str) for f in v)
IsStringList(text) ==
    LET k == SkipSpace(text, 1)
    IN  /\ IsJson(text)
        /\ CharAt(text, k) = "["
        /\ \/ CharAt(text, SkipSpace(text, k + 1)) = "]"
           \/ StringsEnd(text, SkipSpace(text, k + 1)) # 0

SelectFiles == "select_important_files"
AnalyzeCodebase == "analyze_codebase_context"
GenerateTools == "generate_mcp_tools"
GenerateDocumentation == "generate_documentation_resource"
GenerateServerTemplate == "generate_mcp_server_template"
GenerateDockerfile == "generate_dockerfile_for_repository"

\* the methods that clean and decode their reply
JsonStages == {SelectFiles, AnalyzeCodebase, GenerateTools, GenerateServerTemplate}

\* the methods whose except clause returns a fallback value
FallbackStages ==
    {SelectFiles, AnalyzeCodebase, GenerateDocumentation, GenerateServerTemplate,
     GenerateDockerfile}

AllStages == JsonStages \cup {GenerateDocumentation, GenerateDockerfile}

\* the value of _fallback_file_selection, _fallback_analysis,
\* _fallback_documentation, _fallback_server_template, _fallback_dockerfile
FallbackKind(s) ==
    IF s = SelectFiles THEN "list"
    ELSE IF s \in {AnalyzeCodebase, GenerateServerTemplate} THEN "dict"
    ELSE "str"

\* str.lower, for the letters of the Latin alphabet
UpperCase ==
    <<"A", "B", "C", "D", "E", "F", "G", "H", "I", "J", "K", "L", "M",
      "N", "O", "P", "Q", "R", "S", "T", "U", "V", "W", "X", "Y", "Z">>

LowerCase ==
    <<"a", "b", "c", "d", "e", "f", "g", "h", "i", "j", "k", "l", "m",
      "n", "o", "p", "q", "r", "s", "t", "u", "v", "w", "x", "y", "z">>

LowerChar(c) ==
    LET k == FindFrom(UpperCase, c, 1)
    IN  IF k = 0 THEN c ELSE LowerCase[k]

StrLower(s) == [k \in 1..Len(s) |-> LowerChar(s[k])]

\* s.find(sub) from position k on, counted from 1; 0 if sub does not occur
RECURSIVE FindText(_, _, _)
FindText(s, sub, k) ==
    IF k + Len(sub) - 1 > Len(s) THEN 0
    ELSE IF SubSeq(s, k, k + Len(sub) - 1) = sub THEN k
    ELSE FindText(s, sub, k + 1)

\* sub in s, for two strings
Within(sub, s) == FindText(s, sub, 1) # 0

\* item in list
InList(item, list) == \E k \in 1..Len(list) : list[k] = item

\* the names of the languages
JavaScript == <<"J", "a", "v", "a", "S", "c", "r", "i", "p", "t">>
TypeScript == <<"T", "y", "p", "e", "S", "c", "r", "i", "p", "t">>
Python == <<"P", "y", "t", "h", "o", "n">>
Rust == <<"R", "u", "s", "t">>
Go == <<"G", "o">>
Java == <<"J", "a", "v", "a">>

\* a well-formed analysis: a dict whose languages and config_files are
\* lists of strings
Analysis(languages, config_files) ==
    [type |-> "dict", languages |-> languages, config_files |-> config_files]

\* _fallback_analysis (lines 800-811); the summary names the number of files
\* and the languages
fallback_analysis_NoTechnologies(a) ==
    [type |-> "fallback", of |-> AnalyzeCodebase, kind |-> "dict",
     api_endpoints |-> <<>>, key_functions |-> <<>>,
     database_operations |-> <<>>, external_integrations |-> <<>>,
     project_summary |-> [file_count |-> 0, languages |-> a.languages],
     architecture_pattern |-> "Unknown",
     main_technologies |-> <<>>]

fallback_analysis(a) ==
    [type |-> "fallback", of |-> AnalyzeCodebase, kind |-> "dict",
     api_endpoints |-> <<>>, key_functions |-> <<>>,
     database_operations |-> <<>>, external_integrations |-> <<>>,
     project_summary |-> [file_count |-> 0, languages |-> a.languages],
     architecture_pattern |-> "Unknown",
     main_technologies |-> a.languages]

\* line 607: languages[0] if languages else "Unknown"
PrimaryLanguage(a) ==
    IF a.languages # <<>> THEN a.languages[1] ELSE <<"U", "n", "k", "n", "o", "w", "n">>

\* _fallback_dockerfile (lines 672-770): the template, named by its first line
fallback_dockerfile(primary_language) ==
    [type |-> "fallback", of |-> GenerateDockerfile, kind |-> "str",
     template |->
         IF \/ Within(<<"j", "a", "v", "a", "s", "c", "r", "i", "p", "t">>, StrLower(primary_language))
            \/ Within(<<"t", "y", "p", "e", "s", "c", "r", "i", "p", "t">>, StrLower(primary_language))
         THEN "# Node.js Application Dockerfile"
         ELSE IF Within(<<"p", "y", "t", "h", "o", "n">>, StrLower(primary_language))
         THEN "# Python Application Dockerfile"
         ELSE "# Generic Application Dockerfile"]

\* the value the except clause of the method s returns
Fallback(s) ==
    IF s = AnalyzeCodebase THEN fallback_analysis(analysis)
    ELSE IF s = GenerateDockerfile
    THEN fallback_dockerfile(PrimaryLanguage(analysis))
    ELSE [type |-> "fallback", of |-> s, kind |-> FallbackKind(s)]

\* a dict without keys
EmptyDict == [key \in {} |-> None]

\* d[key] = value
SetItem(d, key, value) ==
    [x \in DOMAIN d \cup {key} |-> IF x = key THEN value ELSE d[x]]

\* json.loads of the members of an object from position k on, the opening
\* quote of a key: each key is bound to its value, a later member replacing
\* an earlier one of the same key
RECURSIVE Members(_, _, _)
Members(text, k, d) ==
    LET key == StringEnd(text, k + 1)
        first == SkipSpace(text, SkipSpace(text, key) + 1)
        last == ValueEnd(text, first)
        after == SkipSpace(text, last)
        bound == SetItem(d, SubSeq(text, k + 1, key - 2),
                         Json(SubSeq(text, first, last - 1)))
    IN  IF CharAt(text, after) = ","
        THEN Members(text, SkipSpace(text, after + 1), bound)
        ELSE bound

\* json.loads(text) of a text that decodes to an object: the dict of its
\* keys, each value kept as the JSON text it was written as
JsonObject(text) ==
    LET first == SkipSpace(text, SkipSpace(text, 1) + 1)
    IN  IF CharAt(text, first) = "}" THEN EmptyDict
        ELSE Members(text, first, EmptyDict)

DocumentationMd == <<"d", "o", "c", "u", "m", "e", "n", "t", "a", "t", "i", "o", "n", ".", "m", "d">>

\* (mutant) the documentation is stored only when the reply has no such key
Template_KeepsReplyKey(files, doc) ==
    [type |-> "template", files |-> files, documentation |-> doc,
     items |-> IF DocumentationMd \in DOMAIN JsonObject(files.text)
               THEN JsonObject(files.text)
               ELSE SetItem(JsonObject(files.text), DocumentationMd, doc)]

\* lines 574-585: the decoded files with the key documentation.md bound to
\* the documentation
Template(files, doc) ==
    [type |-> "template", files |-> files, documentation |-> doc,
     items |-> SetItem(JsonObject(files.text), DocumentationMd, doc)]

\* type(value).__name__
TypeOf(value) ==
    IF value.type = "json" THEN JsonKind(value.text)
    ELSE IF value.type = "fallback" THEN value.kind
    ELSE IF value.type = "template" THEN "dict"
    ELSE value.type

\* value.get(...) does not raise AttributeError
IsDict(value) == TypeOf(value) = "dict"

\* len(value) does not raise TypeError
HasLen(value) == TypeOf(value) \in {"dict", "list", "str"}

\* the two messages of an empty reply
EmptyReplyError(s) ==
    IF s = SelectFiles
    THEN Raise("ValueError", "Empty response from LLM")
    ELSE Raise("ValueError", "Empty response from OpenAI")

\* line 172
InvalidShapeError == Raise("ValueError", "LLM returned invalid file list format")

\* an exception of the client: the request failed
RequestError == Raise("APIError", "Connection error.")

\* str.split('\n')
RECURSIVE SplitLines(_)
SplitLines(text) ==
    LET n == FindFrom(text, NL, 1)
    IN  IF n = 0 THEN <<text>>
        ELSE <<SubSeq(text, 1, n - 1)>> \o SplitLines(SubSeq(text, n + 1, Len(text)))

\* '\n'.join(lines)
RECURSIVE JoinLines(_)
JoinLines(lines) ==
    IF lines = <<>> THEN <<>>
    ELSE IF Len(lines) = 1 THEN lines[1]
    ELSE lines[1] \o <<NL>> \o JoinLines(Tail(lines))

\* lines 657-664: the markdown markers removed from a reply that starts with one
StripMarkers(text) ==
    IF StartsWith(text, Fence)
    THEN LET lines == SplitLines(text)
             opened == IF StartsWith(lines[1], Fence) THEN Tail(lines) ELSE lines
             closed == IF opened # <<>> /\ Strip(opened[Len(opened)]) = Fence
                       THEN SubSeq(opened, 1, Len(opened) - 1)
                       ELSE opened
         IN  JoinLines(closed)
    ELSE text

\* (mutant) the markers are removed and the text is not trimmed
DockerfileText_Untrimmed(text) == StripMarkers(text)

\* line 666: dockerfile_content.strip() of a content that is not empty
DockerfileText(text) == Strip(StripMarkers(text))

\* the prompt is built before the try block; that of generate_mcp_tools
\* (lines 375-384) reads codebase_analysis.get
PromptBuilds(s) == s = GenerateTools => IsDict(codebase_analysis)

\* the fallback of the method can be computed: _fallback_documentation reads
\* codebase_analysis.get and len(mcp_tools), _fallback_server_template
\* len(mcp_tools)
FallbackBuilds(s) ==
    /\ s = GenerateDocumentation => IsDict(codebase_analysis) /\ HasLen(mcp_tools)
    /\ s = GenerateServerTemplate => HasLen(mcp_tools)

------------------------------------------------------------------------------
(* The replies of the LLM.                                                  *)

MaxReplyPieces == 3

ReplyPieces ==
    {<<"[">>, <<"]">>, <<"{">>, <<"}">>, <<"\"", "a", "\"">>, <<",">>, <<"1">>,
     <<"x">>, <<" ">>, Fence}

\* None, and the texts made of at most MaxReplyPieces pieces
Replies ==
    {None} \cup
    {Str(Concat(ps)) : ps \in UNION {[1..n -> ReplyPieces] : n \in 0..MaxReplyPieces}}

MaxLines == 4

DockerLines ==
    {<<"F", "R", "O", "M", " ", "a">>, <<"R", "U", "N", " ", "b">>,
     Fence, Fence \o <<"d", "o", "c", "k", "e", "r", "f", "i", "l", "e">>,
     <<"H", "e", "r", "e", ":">>, <<>>, <<" ">>}

\* None, and the texts made of at most MaxLines lines
DockerReplies ==
    {None} \cup
    {Str(JoinLines(ls)) : ls \in UNION {[1..n -> DockerLines] : n \in 0..MaxLines}}

\* the replies of a run of main
PipelineReplies ==
    {None, Str(<<>>), Str(<<" ">>), Str(<<"x">>), Str(<<"{", "}">>),
     Str(<<"[", "]">>), Str(<<"1">>)}

\* replies that decode to an object with keys
ObjectReplies ==
    {Str(<<"{", "\"", "a", "\"", ":", " ", "1", "}">>),
     Str(<<"{", "\"", "a", "\"", ":", "1", ",", "\"", "b", "\"", ":", "[", "]", "}">>),
     Str(<<"{", "\"", "a", "\"", ":", "1", ",", "\"", "a", "\"", ":", "\"", "b", "\"", "}">>),
     Str(<<"{", "\"", "d", "o", "c", "u", "m", "e", "n", "t", "a", "t", "i", "o", "n", ".", "m", "d", "\"", ":", "1", "}">>),
     Str(<<"{", " ", "\"", "d", "o", "c", "u", "m", "e", "n", "t", "a", "t", "i", "o", "n", ".", "m", "d", "\"", " ", ":", " ", "\"", "a", "\"", " ", ",", " ", "\"", "a", "\"", ":", " ", "{", "\"", "b", "\"", ":", "1", "}", " ", "}">>),
     Str(FenceJson \o <<NL>> \o <<"{", "\"", "b", "\"", ":", "\"", "a", "\"", "}">> \o <<NL>> \o Fence)}

ReplyPool ==
    IF ppc # "idle" THEN PipelineReplies
    ELSE IF stage = GenerateDockerfile THEN DockerReplies
    ELSE IF stage = GenerateServerTemplate THEN Replies \cup ObjectReplies
    ELSE Replies

------------------------------------------------------------------------------
(* One invocation of a method, one action per step.                        *)

\* generate_mcp_tools, lines 375-384: building the prompt raises, outside try
PromptFails ==
    /\ spc = "call"
    /\ ~PromptBuilds(stage)
    /\ result' = Raise("AttributeError", "object has no attribute 'get'")
    /\ spc' = "done"
    /\ UNCHANGED <<stage, raw_response, caught, requests, outstanding>>

\* await self.client.chat.completions.create(...): the request is sent
IssueRequest ==
    /\ spc = "call"
    /\ PromptBuilds(stage)
    /\ requests' = Append(requests, stage)
    /\ outstanding' = outstanding + 1
    /\ spc' = "await"
    /\ UNCHANGED <<stage, raw_response, caught, result>>

\* the awaited request completes: response.choices[0].message.content
ReceiveReply ==
    /\ spc = "await"
    /\ \E r \in ReplyPool : raw_response' = r
    /\ outstanding' = outstanding - 1
    /\ spc' = "reply"
    /\ UNCHANGED <<stage, caught, result, requests>>

\* the awaited request raises
RequestRaises ==
    /\ spc = "await"
    /\ caught' = RequestError
    /\ outstanding' = outstanding - 1
    /\ spc' = "except"
    /\ UNCHANGED <<stage, raw_response, result, requests>>

\* the else branch of "if raw_response:" (lines 173-174, 362-363, 440-441,
\* 579-580)
RaiseEmptyReply ==
    /\ spc = "reply"
    /\ stage \in JsonStages
    /\ ~Truthy(raw_response)
    /\ caught' = EmptyReplyError(stage)
    /\ spc' = "except"
    /\ UNCHANGED <<stage, raw_response, result, requests, outstanding>>

\* self._clean_json_response(raw_response) raises
CleaningRaises ==
    /\ spc = "reply"
    /\ stage \in JsonStages
    /\ Truthy(raw_response)
    /\ clean_json_response(raw_response).kind = "raise"
    /\ caught' = clean_json_response(raw_response)
    /\ spc' = "except"
    /\ UNCHANGED <<stage, raw_response, result, requests, outstanding>>

\* json.loads raises JSONDecodeError (lines 162-165, 358-361, 436-439, 575-578)
RaiseInvalidJson ==
    /\ spc = "reply"
    /\ stage \in JsonStages
    /\ Truthy(raw_response)
    /\ clean_json_response(raw_response).kind = "return"
    /\ ~IsJson(clean_json_response(raw_response).value)
    /\ caught' = InvalidJsonError
    /\ spc' = "except"
    /\ UNCHANGED <<stage, raw_response, result, requests, outstanding>>

\* analyze_codebase_context lines 356-357, generate_mcp_tools lines 434-435
ReturnDecoded ==
    /\ spc = "reply"
    /\ stage \in {AnalyzeCodebase, GenerateTools}
    /\ Truthy(raw_response)
    /\ clean_json_response(raw_response).kind = "return"
    /\ IsJson(clean_json_response(raw_response).value)
    /\ result' = Return(Json(clean_json_response(raw_response).value))
    /\ spc' = "done"
    /\ UNCHANGED <<stage, raw_response, caught, requests, outstanding>>

\* select_important_files lines 161-170: a list of strings is the selection
ReturnSelection ==
    /\ spc = "reply"
    /\ stage = SelectFiles
    /\ Truthy(raw_response)
    /\ clean_json_response(raw_response).kind = "return"
    /\ IsStringList(clean_json_response(raw_response).value)
    /\ result' = Return(Json(clean_json_response(raw_response).value))
    /\ spc' = "done"
    /\ UNCHANGED <<stage, raw_response, caught, requests, outstanding>>

\* select_important_files lines 171-172: any other decoded value
RaiseInvalidShape ==
    /\ spc = "reply"
    /\ stage = SelectFiles
    /\ Truthy(raw_response)
    /\ clean_json_response(raw_response).kind = "return"
    /\ IsJson(clean_json_response(raw_response).value)
    /\ ~IsStringList(clean_json_response(raw_response).value)
    /\ caught' = InvalidShapeError
    /\ spc' = "except"
    /\ UNCHANGED <<stage, raw_response, result, requests, outstanding>>

\* generate_mcp_server_template lines 582-585, the decoded value being a dict
ReturnTemplate ==
    /\ spc = "reply"
    /\ stage = GenerateServerTemplate
    /\ Truthy(raw_response)
    /\ clean_json_response(raw_response).kind = "return"
    /\ IsJson(clean_json_response(raw_response).value)
    /\ JsonKind(clean_json_response(raw_response).value) = "dict"
    /\ result' = Return(Template(Json(clean_json_response(raw_response).value),
                                 documentation))
    /\ spc' = "done"
    /\ UNCHANGED <<stage, raw_response, caught, requests, outstanding>>

\* generate_mcp_server_template line 583, the decoded value not being a dict:
\* the item assignment raises TypeError
TemplateItemFails ==
    /\ spc = "reply"
    /\ stage = GenerateServerTemplate
    /\ Truthy(raw_response)
    /\ clean_json_response(raw_response).kind = "return"
    /\ IsJson(clean_json_response(raw_response).value)
    /\ JsonKind(clean_json_response(raw_response).value) # "dict"
    /\ caught' = Raise("TypeError", "object does not support item assignment")
    /\ spc' = "except"
    /\ UNCHANGED <<stage, raw_response, result, requests, outstanding>>

\* generate_documentation_resource lines 515-516
ReturnDocumentation ==
    /\ spc = "reply"
    /\ stage = GenerateDocumentation
    /\ result' = Return(IF Truthy(raw_response) THEN raw_response ELSE Str(<<>>))
    /\ spc' = "done"
    /\ UNCHANGED <<stage, raw_response, caught, requests, outstanding>>

\* generate_dockerfile_for_repository lines 654-666
ReturnDockerfile ==
    /\ spc = "reply"
    /\ stage = GenerateDockerfile
    /\ result' =
           IF Truthy(raw_response) /\ StripMarkers(raw_response.val) # <<>>
           THEN Return(Str(DockerfileText(raw_response.val)))
           ELSE Return(Fallback(GenerateDockerfile))
    /\ spc' = "done"
    /\ UNCHANGED <<stage, raw_response, caught, requests, outstanding>>

\* (mutant) the except clause calls the method again
FallBack_Retry ==
    /\ spc = "except"
    /\ stage \in FallbackStages
    /\ FallbackBuilds(stage)
    /\ spc' = "call"
    /\ UNCHANGED <<stage, raw_response, caught, result, requests, outstanding>>

\* the except clause that returns the fallback value (lines 176-179,
\* 365-367, 518-520, 587-589, 668-670)
FallBack ==
    /\ spc = "except"
    /\ stage \in FallbackStages
    /\ FallbackBuilds(stage)
    /\ result' = Return(Fallback(stage))
    /\ spc' = "done"
    /\ UNCHANGED <<stage, raw_response, caught, requests, outstanding>>

\* the fallback raises in the except clause
FallbackFails ==
    /\ spc = "except"
    /\ stage \in FallbackStages
    /\ ~FallbackBuilds(stage)
    /\ result' = IF IsDict(codebase_analysis) \/ stage # GenerateDocumentation
                 THEN Raise("TypeError", "object has no len()")
                 ELSE Raise("AttributeError", "object has no attribute 'get'")
    /\ spc' = "done"
    /\ UNCHANGED <<stage, raw_response, caught, requests, outstanding>>

\* generate_mcp_tools lines 443-445: the exception is raised again
Reraise ==
    /\ spc = "except"
    /\ stage = GenerateTools
    /\ result' = caught
    /\ spc' = "done"
    /\ UNCHANGED <<stage, raw_response, caught, requests, outstanding>>

\* the languages the analysis of a repository names, in order
LanguageLists ==
    {<<>>, <<JavaScript>>, <<TypeScript, Python>>, <<Python, JavaScript>>, <<Rust>>}

\* the arguments a method is called with in a run of its own
CallArguments ==
    /\ important_files = <<>>
    /\ codebase_analysis \in
           IF stage \in {GenerateTools, GenerateDocumentation}
           THEN {fallback_analysis(Analysis(<<>>, <<>>)), Json(<<"[", "]">>)}
           ELSE {None}
    /\ mcp_tools \in
           IF stage \in {GenerateDocumentation, GenerateServerTemplate}
           THEN {Json(<<"[", "]">>), Json(<<"1">>)}
           ELSE {None}
    /\ documentation =
           IF stage = GenerateServerTemplate THEN Str(<<"d">>) ELSE None
    /\ analysis \in
           IF stage \in {AnalyzeCodebase, GenerateDockerfile}
           THEN {Analysis(ls, <<>>) : ls \in LanguageLists}
           ELSE {Analysis(<<>>, <<>>)}

StageInit ==
    /\ stage \in AllStages
    /\ spc = "call"
    /\ raw_response = None
    /\ caught = [kind |-> "none"]
    /\ result = [kind |-> "none"]
    /\ requests = <<>>
    /\ outstanding = 0
    /\ CallArguments
    /\ MainIdle
    /\ TruncateIdle
    /\ CleanIdle
    /\ HelpersIdle

StageNext ==
    \/ PromptFails /\ UNCHANGED <<tvars, cvars, pvars, hvars>>
    \/ IssueRequest /\ UNCHANGED <<tvars, cvars, pvars, hvars>>
    \/ ReceiveReply /\ UNCHANGED <<tvars, cvars, pvars, hvars>>
    \/ RequestRaises /\ UNCHANGED <<tvars, cvars, pvars, hvars>>
    \/ RaiseEmptyReply /\ UNCHANGED <<tvars, cvars, pvars, hvars>>
    \/ CleaningRaises /\ UNCHANGED <<tvars, cvars, pvars, hvars>>
    \/ RaiseInvalidJson /\ UNCHANGED <<tvars, cvars, pvars, hvars>>
    \/ ReturnDecoded /\ UNCHANGED <<tvars, cvars, pvars, hvars>>
    \/ ReturnSelection /\ UNCHANGED <<tvars, cvars, pvars, hvars>>
    \/ RaiseInvalidShape /\ UNCHANGED <<tvars, cvars, pvars, hvars>>
    \/ ReturnTemplate /\ UNCHANGED <<tvars, cvars, pvars, hvars>>
    \/ TemplateItemFails /\ UNCHANGED <<tvars, cvars, pvars, hvars>>
    \/ ReturnDocumentation /\ UNCHANGED <<tvars, cvars, pvars, hvars>>
    \/ ReturnDockerfile /\ UNCHANGED <<tvars, cvars, pvars, hvars>>
    \/ FallBack /\ UNCHANGED <<tvars, cvars, pvars, hvars>>
    \/ FallbackFails /\ UNCHANGED <<tvars, cvars, pvars, hvars>>
    \/ Reraise /\ UNCHANGED <<tvars, cvars, pvars, hvars>>

StageSpec == StageInit /\ [][StageNext]_vars

------------------------------------------------------------------------------
(* main, command analyze-and-generate (agent.py:971-1053).                  *)

\* _truncate_files_to_token_budget as one call: the loop of lines 235-274
\* from entry i on, with the tokens used and the entries kept so far
RECURSIVE TruncateFrom(_, _, _, _, _)
TruncateFrom(files, budget, i, used, kept) ==
    IF i > Len(files) THEN kept
    ELSE IF ~Contains(files[i], ":")
    THEN TruncateFrom(files, budget, i + 1, used, kept)
    ELSE IF Fits(used, FileText(files[i]), budget)
    THEN TruncateFrom(files, budget, i + 1,
                      used + estimate_tokens(FileText(files[i])),
                      Append(kept, files[i]))
    ELSE IF HasRoom(budget - used)
    THEN Append(kept,
                JoinEntry(FileName(files[i]),
                          TruncatedContent(FileText(files[i]),
                                           (budget - used) * CharsPerToken)))
    ELSE kept

truncate_files_to_token_budget(files, budget) ==
    TruncateFrom(files, budget, 1, 0, <<>>)

\* line 993: token_budget=90000
MainTokenBudget == 90000

\* (mutant) documentation is generated before the tools
StageAfter_DocsFirst(s) ==
    IF s = AnalyzeCodebase THEN GenerateDocumentation
    ELSE IF s = GenerateDocumentation THEN GenerateTools
    ELSE IF s = GenerateTools THEN GenerateServerTemplate
    ELSE "result"

\* lines 996-1029: the step of main that follows the call of method s
StageAfter(s) ==
    IF s = AnalyzeCodebase THEN GenerateTools
    ELSE IF s = GenerateTools THEN GenerateDocumentation
    ELSE IF s = GenerateDocumentation THEN GenerateServerTemplate
    ELSE "result"

MainStages ==
    {AnalyzeCodebase, GenerateTools, GenerateDocumentation, GenerateServerTemplate}

\* lines 1031-1045: the result printed on success
SuccessResult ==
    [success |-> TRUE,
     codebase_analysis |-> codebase_analysis,
     mcp_tools |-> mcp_tools,
     documentation |-> documentation,
     server_template |-> server_template]

\* lines 973-976 and 1049-1052: a failure result
FailureResult(msg) == [success |-> FALSE, error |-> msg]

\* lines 972-990, OPENAI_AVAILABLE being true; the input is read
CheckAvailable ==
    /\ ppc = "start"
    /\ openai_available
    /\ ppc' = "truncate"
    /\ UNCHANGED <<svars, args, openai_available, server_template, error,
                   stdout, stderr, exit_status>>

\* lines 972-977: the library is missing
ReportUnavailable ==
    /\ ppc = "start"
    /\ ~openai_available
    /\ stdout' = Append(stdout, FailureResult(<<"OpenAI library not available">>))
    /\ exit_status' = 1
    /\ ppc' = "exited"
    /\ UNCHANGED <<svars, args, openai_available, server_template, error, stderr>>

\* line 993
TruncateImportantFiles ==
    /\ ppc = "truncate"
    /\ important_files' =
           truncate_files_to_token_budget(important_files, MainTokenBudget)
    /\ ppc' = AnalyzeCodebase
    /\ UNCHANGED <<svars, codebase_analysis, mcp_tools, documentation,
                   openai_available, server_template, error, stdout, stderr,
                   exit_status>>

\* lines 996, 1003, 1012, 1022: main calls the method and awaits it
CallStage ==
    /\ ppc \in MainStages
    /\ spc = "idle"
    /\ stage' = ppc
    /\ spc' = "call"
    /\ UNCHANGED <<raw_response, caught, result, requests, outstanding, pvars>>

\* the awaited method returned: its value is bound, main goes on
StageReturns ==
    /\ ppc \in MainStages
    /\ stage = ppc
    /\ spc = "done"
    /\ result.kind = "return"
    /\ codebase_analysis' =
           IF stage = AnalyzeCodebase THEN result.value ELSE codebase_analysis
    /\ mcp_tools' = IF stage = GenerateTools THEN result.value ELSE mcp_tools
    /\ documentation' =
           IF stage = GenerateDocumentation THEN result.value ELSE documentation
    /\ server_template' =
           IF stage = GenerateServerTemplate THEN result.value ELSE server_template
    /\ ppc' = StageAfter(stage)
    /\ stage' = "none"
    /\ spc' = "idle"
    /\ raw_response' = None
    /\ caught' = [kind |-> "none"]
    /\ result' = [kind |-> "none"]
    /\ UNCHANGED <<requests, outstanding, important_files, openai_available,
                   error, stdout, stderr, exit_status>>

\* (mutant) main goes on to its next step after the method raised
StageRaises_Continue ==
    /\ ppc \in MainStages
    /\ stage = ppc
    /\ spc = "done"
    /\ result.kind = "raise"
    /\ error' = result
    /\ ppc' = StageAfter(stage)
    /\ stage' = "none"
    /\ spc' = "idle"
    /\ raw_response' = None
    /\ caught' = [kind |-> "none"]
    /\ result' = [kind |-> "none"]
    /\ UNCHANGED <<requests, outstanding, args, openai_available,
                   server_template, stdout, stderr, exit_status>>

\* the awaited method raised: control goes to the except clause of line 1048
StageRaises ==
    /\ ppc \in MainStages
    /\ stage = ppc
    /\ spc = "done"
    /\ result.kind = "raise"
    /\ error' = result
    /\ ppc' = "except"
    /\ stage' = "none"
    /\ spc' = "idle"
    /\ raw_response' = None
    /\ caught' = [kind |-> "none"]
    /\ result' = [kind |-> "none"]
    /\ UNCHANGED <<requests, outstanding, args, openai_available,
                   server_template, stdout, stderr, exit_status>>

\* lines 1031-1046: the result is built and printed
PrintResult ==
    /\ ppc = "result"
    /\ HasLen(mcp_tools)
    /\ stdout' = Append(stdout, SuccessResult)
    /\ exit_status' = 0
    /\ ppc' = "exited"
    /\ UNCHANGED <<svars, args, openai_available, server_template, error, stderr>>

\* line 1040: len(mcp_tools) raises TypeError
SummaryFails ==
    /\ ppc = "result"
    /\ ~HasLen(mcp_tools)
    /\ error' = Raise("TypeError", "object has no len()")
    /\ ppc' = "except"
    /\ UNCHANGED <<svars, args, openai_available, server_template, stdout,
                   stderr, exit_status>>

\* lines 1048-1053
ReportFailure ==
    /\ ppc = "except"
    /\ stderr' = Append(stderr, FailureResult(<<"Analysis failed: ", error.msg>>))
    /\ exit_status' = 1
    /\ ppc' = "exited"
    /\ UNCHANGED <<svars, args, openai_available, server_template, error, stdout>>

\* the important files of the input
MainEntries ==
    {PathOf(29) \o <<":">> \o ContentOf(29), <<"R", "E", "A", "D", "M", "E">>}

MainFiles == UNION {[1..n -> MainEntries] : n \in 0..2}

MainInit ==
    /\ ppc = "start"
    /\ openai_available \in BOOLEAN
    /\ important_files \in MainFiles
    /\ codebase_analysis = None
    /\ mcp_tools = None
    /\ documentation = None
    /\ server_template = None
    /\ error = [kind |-> "none"]
    /\ stdout = <<>>
    /\ stderr = <<>>
    /\ exit_status = 0 - 1
    /\ analysis \in {Analysis(<<>>, <<>>), Analysis(<<Python, JavaScript>>, <<>>)}
    /\ StageIdle
    /\ TruncateIdle
    /\ CleanIdle
    /\ HelpersIdle

MainNext ==
    \/ CheckAvailable /\ UNCHANGED <<tvars, cvars, hvars>>
    \/ ReportUnavailable /\ UNCHANGED <<tvars, cvars, hvars>>
    \/ TruncateImportantFiles /\ UNCHANGED <<tvars, cvars, hvars>>
    \/ CallStage /\ UNCHANGED <<tvars, cvars, hvars>>
    \/ StageReturns /\ UNCHANGED <<tvars, cvars, hvars>>
    \/ StageRaises /\ UNCHANGED <<tvars, cvars, hvars>>
    \/ PrintResult /\ UNCHANGED <<tvars, cvars, hvars>>
    \/ SummaryFails /\ UNCHANGED <<tvars, cvars, hvars>>
    \/ ReportFailure /\ UNCHANGED <<tvars, cvars, hvars>>
    \/ PromptFails /\ UNCHANGED <<tvars, cvars, pvars, hvars>>
    \/ IssueRequest /\ UNCHANGED <<tvars, cvars, pvars, hvars>>
    \/ ReceiveReply /\ UNCHANGED <<tvars, cvars, pvars, hvars>>
    \/ RequestRaises /\ UNCHANGED <<tvars, cvars, pvars, hvars>>
    \/ RaiseEmptyReply /\ UNCHANGED <<tvars, cvars, pvars, hvars>>
    \/ CleaningRaises /\ UNCHANGED <<tvars, cvars, pvars, hvars>>
    \/ RaiseInvalidJson /\ UNCHANGED <<tvars, cvars, pvars, hvars>>
    \/ ReturnDecoded /\ UNCHANGED <<tvars, cvars, pvars, hvars>>
    \/ ReturnTemplate /\ UNCHANGED <<tvars, cvars, pvars, hvars>>
    \/ TemplateItemFails /\ UNCHANGED <<tvars, cvars, pvars, hvars>>
    \/ ReturnDocumentation /\ UNCHANGED <<tvars, cvars, pvars, hvars>>
    \/ FallBack /\ UNCHANGED <<tvars, cvars, pvars, hvars>>
    \/ FallbackFails /\ UNCHANGED <<tvars, cvars, pvars, hvars>>
    \/ Reraise /\ UNCHANGED <<tvars, cvars, pvars, hvars>>

MainSpec == MainInit /\ [][MainNext]_vars

------------------------------------------------------------------------------
(* Properties of one invocation of a method (C13, C15, C17 to C20).        *)

\* the method has returned or raised
StageDone == spc = "done"

\* the request was sent and its reply received
Replied == requests # <<>> /\ caught # RequestError

\* the reply is a text that is cleaned to a text that does not decode
Undecodable(value) ==
    /\ Truthy(value)
    /\ clean_json_response(value).kind = "return"
    /\ ~IsJson(clean_json_response(value).value)

\* the reply is a text that is cleaned to a text that decodes
Decodable(value) ==
    /\ Truthy(value)
    /\ clean_json_response(value).kind = "return"
    /\ IsJson(clean_json_response(value).value)

\* C13: a non-empty reply that does not decode after cleaning makes
\* select_important_files raise ValueError "Invalid JSON response from LLM"
\* to its caller.
C13_InvalidJsonRaised ==
    (StageDone /\ stage = SelectFiles /\ Replied /\ Undecodable(raw_response))
        => result = InvalidJsonError

\* C15: a method issues at most one request in an invocation, whatever the
\* outcome; after a failure inside it the method has raised or returned its
\* fallback value, and has sent its one request only.
C15_AtMostOneRequest ==
    /\ Len(requests) <= 1
    /\ outstanding <= 1
    /\ (StageDone /\ caught.kind = "raise")
           => /\ requests = <<stage>>
              /\ result.kind = "raise" \/ result = Return(Fallback(stage))

\* a reply of the wrong shape was replaced by the fallback, with one request
C15_Witness ==
    /\ StageDone
    /\ caught = InvalidShapeError
    /\ result = Return(Fallback(SelectFiles))
    /\ requests = <<SelectFiles>>

\* C17: in every method a null or empty reply raises an empty-response error
\* inside the method, and the empty reply is never the value returned.
C17_EmptyReplyRaises ==
    (StageDone /\ Replied /\ ~Truthy(raw_response))
        => /\ caught = EmptyReplyError(stage)
           /\ result # Return(Str(<<>>))
           /\ result # Return(None)

\* C18: a reply that decodes to something else than a list of strings is
\* never returned as the selection, and its rejection reaches the caller as
\* the invalid-shape error, which is not the error of a decode failure.
C18_InvalidShapeDistinct ==
    (/\ StageDone
     /\ stage = SelectFiles
     /\ Replied
     /\ Decodable(raw_response)
     /\ ~IsStringList(clean_json_response(raw_response).value))
        => /\ result # Return(Json(clean_json_response(raw_response).value))
           /\ result = InvalidShapeError
           /\ result # InvalidJsonError

\* a line that holds a Dockerfile instruction
IsInstruction(line) ==
    \/ StartsWith(line, <<"F", "R", "O", "M", " ">>)
    \/ StartsWith(line, <<"R", "U", "N", " ">>)

\* the text is made of instruction lines, with blank lines at most around them
OnlyInstructions(text) ==
    /\ \A k \in 1..Len(SplitLines(text)) :
           IsInstruction(SplitLines(text)[k]) \/ AllSpace(SplitLines(text)[k])
    /\ \E k \in 1..Len(SplitLines(text)) : IsInstruction(SplitLines(text)[k])

\* C19: a reply made of Dockerfile instruction lines only is returned as it
\* is, its lines in their order, but for the whitespace around the whole text.
C19_InstructionsUnchanged ==
    (/\ StageDone
     /\ stage = GenerateDockerfile
     /\ Replied
     /\ Truthy(raw_response)
     /\ OnlyInstructions(raw_response.val))
        => result = Return(Str(Strip(raw_response.val)))

\* two different instruction lines came back in their order, less the blank
\* line before them
C19_Witness ==
    /\ StageDone
    /\ stage = GenerateDockerfile
    /\ raw_response = Str(<<NL, "F", "R", "O", "M", " ", "a", NL, "R", "U", "N", " ", "b">>)
    /\ result = Return(Str(<<"F", "R", "O", "M", " ", "a", NL, "R", "U", "N", " ", "b">>))

\* C20: whatever the reply, no line of the Dockerfile text returned starts
\* with a FENCE.
C20_NoFenceLine ==
    (/\ StageDone
     /\ stage = GenerateDockerfile
     /\ result.kind = "return"
     /\ result.value.type = "str")
        => \A k \in 1..Len(SplitLines(result.value.val)) :
               ~StartsWith(SplitLines(result.value.val)[k], Fence)

------------------------------------------------------------------------------
(* Properties of a run of main (C14, C16).                                  *)

\* s is an initial part of t
IsPrefix(s, t) == Len(s) <= Len(t) /\ SubSeq(t, 1, Len(s)) = s

\* the order in which main calls the methods
MainOrder ==
    <<AnalyzeCodebase, GenerateTools, GenerateDocumentation, GenerateServerTemplate>>

\* C14: no request is issued before the truncation of the important files is
\* over; the requests are issued in the order analysis, tools, documentation,
\* server template; at most one is outstanding; a method runs only when the
\* method before it has returned its value.
C14_SequentialStages ==
    /\ ppc \in {"start", "truncate"} => requests = <<>> /\ stage = "none"
    /\ IsPrefix(requests, MainOrder)
    /\ outstanding \in {0, 1}
    /\ stage = GenerateTools => codebase_analysis # None
    /\ stage = GenerateDocumentation => codebase_analysis # None /\ mcp_tools # None
    /\ stage = GenerateServerTemplate
           => codebase_analysis # None /\ mcp_tools # None /\ documentation # None

\* a run that issued its four requests and printed its result
C14_Witness ==
    /\ ppc = "exited"
    /\ requests = MainOrder
    /\ Len(stdout) = 1
    /\ stdout[1].success

\* the tool generation raised to main: the analysis is bound, the tools are not
ToolsFailed ==
    /\ error.kind = "raise"
    /\ codebase_analysis # None
    /\ mcp_tools = None

\* the method s issued a request
Requested(s) == \E k \in 1..Len(requests) : requests[k] = s

\* C16: when the tool generation fails, no documentation and no server
\* template request is issued afterwards, nothing is printed on standard
\* output, and the run ends with exactly one failure result and status 1.
C16_ToolFailureAborts ==
    ToolsFailed =>
        /\ ~Requested(GenerateDocumentation)
        /\ ~Requested(GenerateServerTemplate)
        /\ stdout = <<>>
        /\ ppc \in {"except", "exited"}
        /\ ppc = "except" => stderr = <<>> /\ exit_status = 0 - 1
        /\ ppc = "exited"
               => /\ stderr = <<FailureResult(<<"Analysis failed: ", error.msg>>)>>
                  /\ exit_status = 1

\* the run ended after a reply to the tool generation that does not decode
C16_Witness ==
    /\ ToolsFailed
    /\ error = InvalidJsonError
    /\ ppc = "exited"
    /\ requests = <<AnalyzeCodebase, GenerateTools>>
    /\ exit_status = 1

------------------------------------------------------------------------------
(* The functions of main.py that work from the structured data of the      *)
(* repository (main.py:74-215).                                            *)

\* line 77: file_path.split('.')[-1].lower(): the text after the last '.',
\* the whole path when it holds no '.'
Extension(path) ==
    StrLower(SubSeq(path, LastAfter(path, ".", 0) + 1, Len(path)))

\* lines 78-84: the languages.add the extension leads to, if any
LanguageOf(ext) ==
    IF ext \in {<<"j", "s">>, <<"j", "s", "x">>, <<"m", "j", "s">>} THEN {JavaScript}
    ELSE IF ext \in {<<"t", "s">>, <<"t", "s", "x">>} THEN {TypeScript}
    ELSE IF ext = <<"p", "y">> THEN {Python}
    ELSE IF ext = <<"r", "s">> THEN {Rust}
    ELSE IF ext = <<"g", "o">> THEN {Go}
    ELSE IF ext = <<"j", "a", "v", "a">> THEN {Java}
    ELSE {}

\* detect_languages_from_files (lines 74-85), on the keys of the mapping
detect_languages_from_files(paths) ==
    UNION {LanguageOf(Extension(path)) : path \in paths}

\* the templates of generate_dockerfile_from_analysis, a line being
\* <<instruction, arguments>>
NodeTemplate ==
    <<<<"FROM", "node:18-alpine">>, <<"WORKDIR", "/app">>,
      <<"COPY", "package*.json ./">>, <<"RUN", "npm ci --only=production">>,
      <<"COPY", ". .">>, <<"EXPOSE", "3000">>, <<"CMD", "[\"npm\", \"start\"]">>>>

RustTemplate ==
    <<<<"FROM", "rust:1.70 as builder">>, <<"WORKDIR", "/usr/src/app">>,
      <<"COPY", ". .">>, <<"RUN", "cargo build --release">>, <<"", "">>,
      <<"FROM", "debian:bullseye-slim">>,
      <<"RUN", "apt-get update && apt-get install -y ca-certificates && rm -rf /var/lib/apt/lists/*">>,
      <<"COPY", "--from=builder /usr/src/app/target/release/* /usr/local/bin/">>,
      <<"CMD", "[\"./app\"]">>>>

PythonTemplate ==
    <<<<"FROM", "python:3.11-slim">>, <<"WORKDIR", "/app">>,
      <<"COPY", "requirements.txt* pyproject.toml* ./">>,
      <<"RUN", "pip install -r requirements.txt || pip install -e . || echo \"No requirements found\"">>,
      <<"COPY", ". .">>, <<"EXPOSE", "8000">>,
      <<"CMD", "[\"python\", \"-m\", \"app\"]">>>>

AlpineTemplate ==
    <<<<"FROM", "alpine:latest">>, <<"WORKDIR", "/app">>, <<"COPY", ". .">>,
      <<"EXPOSE", "8080">>,
      <<"CMD", "[\"echo\", \"Generated from Rust analysis - configure as needed\"]">>>>

\* the names of the configuration files the functions look for
PackageJson == <<"p", "a", "c", "k", "a", "g", "e", ".", "j", "s", "o", "n">>
CargoToml == <<"C", "a", "r", "g", "o", ".", "t", "o", "m", "l">>
PyprojectToml == <<"p", "y", "p", "r", "o", "j", "e", "c", "t", ".", "t", "o", "m", "l">>
RequirementsTxt == <<"r", "e", "q", "u", "i", "r", "e", "m", "e", "n", "t", "s", ".", "t", "x", "t">>
DockerfileName == <<"D", "o", "c", "k", "e", "r", "f", "i", "l", "e">>

\* any(lang in ['JavaScript', 'TypeScript'] for lang in languages)
UsesNode(languages) == InList(JavaScript, languages) \/ InList(TypeScript, languages)

\* (mutant) the Rust template is tried before the Node template
generate_dockerfile_from_analysis_RustFirst(a, config_files) ==
    IF InList(CargoToml, config_files) /\ InList(Rust, a.languages)
    THEN RustTemplate
    ELSE IF InList(PackageJson, config_files) /\ UsesNode(a.languages)
    THEN NodeTemplate
    ELSE IF /\ InList(PyprojectToml, config_files) \/ InList(RequirementsTxt, config_files)
            /\ InList(Python, a.languages)
    THEN PythonTemplate
    ELSE AlpineTemplate

\* generate_dockerfile_from_analysis (lines 177-215)
generate_dockerfile_from_analysis(a, config_files) ==
    IF InList(PackageJson, config_files) /\ UsesNode(a.languages)
    THEN NodeTemplate
    ELSE IF InList(CargoToml, config_files) /\ InList(Rust, a.languages)
    THEN RustTemplate
    ELSE IF /\ InList(PyprojectToml, config_files) \/ InList(RequirementsTxt, config_files)
            /\ InList(Python, a.languages)
    THEN PythonTemplate
    ELSE AlpineTemplate

\* lines 101-150: the names of the tools of the simple analysis, in order
SimpleTools(a) ==
    <<<<"a", "n", "a", "l", "y", "z", "e", "-", "p", "r", "o", "j", "e", "c", "t", "-", "s", "t", "r", "u", "c", "t", "u", "r", "e">>>>
    \o (IF UsesNode(a.languages) THEN <<<<"r", "u", "n", "-", "n", "p", "m", "-", "c", "o", "m", "m", "a", "n", "d", "s">>>> ELSE <<>>)
    \o (IF InList(Rust, a.languages) THEN <<<<"r", "u", "n", "-", "c", "a", "r", "g", "o", "-", "c", "o", "m", "m", "a", "n", "d", "s">>>> ELSE <<>>)
    \o (IF InList(Python, a.languages) THEN <<<<"r", "u", "n", "-", "p", "y", "t", "h", "o", "n", "-", "t", "o", "o", "l", "s">>>> ELSE <<>>)
    \o (IF InList(DockerfileName, a.config_files) THEN <<<<"d", "o", "c", "k", "e", "r", "-", "o", "p", "e", "r", "a", "t", "i", "o", "n", "s">>>> ELSE <<>>)

\* line 166: the confidence of the simple analysis, in hundredths
Confidence == 75

\* lines 155-168: the result of the simple analysis
SimpleResult(repo_id, a) ==
    [success |-> TRUE,
     repo_id |-> repo_id,
     mcp_tools |-> SimpleTools(a),
     dockerfile |-> generate_dockerfile_from_analysis(a, a.config_files),
     ai_analysis |-> [summary |-> [file_count |-> 0, languages |-> a.languages],
                      languages |-> a.languages,
                      config_files |-> a.config_files,
                      confidence |-> Confidence]]

DetectLanguages == "detect_languages_from_files"
GenerateDockerfileFromAnalysis == "generate_dockerfile_from_analysis"
AnalyzeFromStructuredData == "analyze_from_structured_data"

\* the repo_id argument
RepoId == "test-repo"

\* the nested activations the interpreter allows (sys.getrecursionlimit())
MaxDepth == 3

\* a call of detect_languages_from_files
ReturnLanguages ==
    /\ call = DetectLanguages
    /\ ret.kind = "none"
    /\ ret' = Return(detect_languages_from_files(file_paths))
    /\ UNCHANGED <<call, file_paths, agent_available, recursion_depth>>

\* a call of generate_dockerfile_from_analysis, config_files being that of
\* the analysis as at line 153
ReturnDockerfileFromAnalysis ==
    /\ call = GenerateDockerfileFromAnalysis
    /\ ret.kind = "none"
    /\ ret' = Return(generate_dockerfile_from_analysis(analysis, analysis.config_files))
    /\ UNCHANGED <<call, file_paths, agent_available, recursion_depth>>

\* line 95: the name AGENT_AVAILABLE is bound nowhere in main.py
FlagUndefined ==
    /\ call = AnalyzeFromStructuredData
    /\ ret.kind = "none"
    /\ agent_available = "undefined"
    /\ ret' = Raise("NameError", "name 'AGENT_AVAILABLE' is not defined")
    /\ UNCHANGED <<call, file_paths, agent_available, recursion_depth>>

\* lines 95-168: the simple analysis, AGENT_AVAILABLE being false
ReturnSimpleAnalysis ==
    /\ call = AnalyzeFromStructuredData
    /\ ret.kind = "none"
    /\ agent_available = "false"
    /\ ret' = Return(SimpleResult(RepoId, analysis))
    /\ UNCHANGED <<call, file_paths, agent_available, recursion_depth>>

\* lines 172-175: AGENT_AVAILABLE being true, the function awaits a call of
\* itself with the same arguments
CallsItself ==
    /\ call = AnalyzeFromStructuredData
    /\ ret.kind = "none"
    /\ agent_available = "true"
    /\ recursion_depth < MaxDepth
    /\ recursion_depth' = recursion_depth + 1
    /\ UNCHANGED <<call, file_paths, agent_available, ret>>

\* the interpreter ends the recursion
RecursionFails ==
    /\ call = AnalyzeFromStructuredData
    /\ ret.kind = "none"
    /\ agent_available = "true"
    /\ recursion_depth = MaxDepth
    /\ ret' = Raise("RecursionError", "maximum recursion depth exceeded")
    /\ UNCHANGED <<call, file_paths, agent_available, recursion_depth>>

MaxPaths == 4

\* the paths of the files of a repository
PathPool ==
    {PackageJson, <<"s", "e", "r", "v", "e", "r", ".", "j", "s">>, <<"R", "E", "A", "D", "M", "E", ".", "m", "d">>, DockerfileName, <<"m", "a", "i", "n", ".", "c", "p", "p">>,
     <<"A", "p", "p", ".", "T", "S", "X">>, <<"g", "o">>, <<"u", "t", "i", "l", ".", "m", "j", "s">>, <<"l", "i", "b", ".", "r", "s">>, <<"M", "a", "i", "n", ".", "j", "a", "v", "a">>, <<"a", ".", "p", "y">>}

\* the languages and the configuration files of an analysis
ConfigLists ==
    {<<>>, <<PackageJson>>, <<CargoToml, PackageJson>>, <<CargoToml>>,
     <<RequirementsTxt>>, <<PyprojectToml, DockerfileName>>, <<DockerfileName>>}

StructuredLanguages ==
    LanguageLists \cup {<<Rust, TypeScript>>, <<Python>>, <<Go, Java>>}

StructuredInit ==
    /\ call \in {DetectLanguages, GenerateDockerfileFromAnalysis, AnalyzeFromStructuredData}
    /\ file_paths \in
           IF call = DetectLanguages
           THEN {s \in SUBSET PathPool : Cardinality(s) <= MaxPaths}
           ELSE {{}}
    /\ analysis \in
           IF call = DetectLanguages THEN {None}
           ELSE {Analysis(ls, cs) : ls \in StructuredLanguages, cs \in ConfigLists}
    /\ agent_available \in
           IF call = AnalyzeFromStructuredData THEN {"undefined", "false", "true"}
           ELSE {"undefined"}
    /\ recursion_depth = 0
    /\ ret = [kind |-> "none"]
    /\ tree_structure = <<>>
    /\ runs = <<>>
    /\ TruncateIdle
    /\ CleanIdle
    /\ StageIdle
    /\ MainIdle
    /\ NoArguments

StructuredNext ==
    \/ ReturnLanguages /\ UNCHANGED <<tvars, cvars, svars, pvars, analysis, fvars>>
    \/ ReturnDockerfileFromAnalysis /\ UNCHANGED <<tvars, cvars, svars, pvars, analysis, fvars>>
    \/ FlagUndefined /\ UNCHANGED <<tvars, cvars, svars, pvars, analysis, fvars>>
    \/ ReturnSimpleAnalysis /\ UNCHANGED <<tvars, cvars, svars, pvars, analysis, fvars>>
    \/ CallsItself /\ UNCHANGED <<tvars, cvars, svars, pvars, analysis, fvars>>
    \/ RecursionFails /\ UNCHANGED <<tvars, cvars, svars, pvars, analysis, fvars>>

StructuredSpec == StructuredInit /\ [][StructuredNext]_vars

------------------------------------------------------------------------------
(* Properties of the functions of main.py.                                 *)

Detected == call = DetectLanguages /\ ret.kind # "none"

\* the path holds a '.', so it has an extension
HasExtension(path) == Contains(path, ".")

\* the language the stated table assigns to an extension
TableLanguage(ext) ==
    IF ext \in {<<"j", "s">>, <<"j", "s", "x">>} THEN {JavaScript}
    ELSE IF ext \in {<<"t", "s">>, <<"t", "s", "x">>} THEN {TypeScript}
    ELSE IF ext = <<"p", "y">> THEN {Python}
    ELSE IF ext = <<"r", "s">> THEN {Rust}
    ELSE IF ext = <<"g", "o">> THEN {Go}
    ELSE IF ext = <<"j", "a", "v", "a">> THEN {Java}
    ELSE IF ext \in {<<"c", "p", "p">>, <<"c", "c">>, <<"c", "x", "x">>} THEN {<<"C", "+", "+">>}
    ELSE IF ext = <<"c", "s">> THEN {<<"C", "#">>}
    ELSE IF ext = <<"p", "h", "p">> THEN {<<"P", "H", "P">>}
    ELSE IF ext = <<"r", "b">> THEN {<<"R", "u", "b", "y">>}
    ELSE {}

\* C21: detect_languages_from_files raises no error and returns exactly the
\* languages the table js/ts/jsx/tsx/py/rs/go/java/cpp/cc/cxx/cs/php/rb
\* assigns to the extensions of the paths, whatever their case; a path with
\* an unknown extension or with no extension adds no language, so the empty
\* mapping gives the empty set
C21_TableLanguages ==
    Detected =>
        /\ ret.kind = "return"
        /\ ret.value =
               UNION {TableLanguage(Extension(path)) :
                          path \in {q \in file_paths : HasExtension(q)}}

\* C22: for the files package.json, server.js, README.md and Dockerfile the
\* result of detect_languages_from_files is exactly {JavaScript, JSON}: a
\* .json file is reported as the language JSON
C22_JsonReported ==
    /\ Detected
    /\ file_paths = {PackageJson, <<"s", "e", "r", "v", "e", "r", ".", "j", "s">>, <<"R", "E", "A", "D", "M", "E", ".", "m", "d">>, DockerfileName}
    => ret = Return({JavaScript, <<"J", "S", "O", "N">>})

GeneratedFromAnalysis == call = GenerateDockerfileFromAnalysis /\ ret.kind # "none"

Listed(name, list) == name \in {list[k] : k \in DOMAIN list}

NodeApplies ==
    /\ Listed(PackageJson, analysis.config_files)
    /\ Listed(JavaScript, analysis.languages) \/ Listed(TypeScript, analysis.languages)

RustApplies ==
    Listed(CargoToml, analysis.config_files) /\ Listed(Rust, analysis.languages)

PythonApplies ==
    /\ \/ Listed(PyprojectToml, analysis.config_files)
       \/ Listed(RequirementsTxt, analysis.config_files)
    /\ Listed(Python, analysis.languages)

\* C23: generate_dockerfile_from_analysis returns exactly one template, the
\* first that applies in the order Node (package.json with JavaScript or
\* TypeScript), Rust (Cargo.toml with Rust), Python (pyproject.toml or
\* requirements.txt with Python), alpine otherwise; every result begins
\* with a FROM instruction and contains WORKDIR
C23_FirstMatchingTemplate ==
    GeneratedFromAnalysis =>
        /\ ret.kind = "return"
        /\ NodeApplies => ret.value = NodeTemplate
        /\ ~NodeApplies /\ RustApplies => ret.value = RustTemplate
        /\ ~NodeApplies /\ ~RustApplies /\ PythonApplies => ret.value = PythonTemplate
        /\ ~NodeApplies /\ ~RustApplies /\ ~PythonApplies => ret.value = AlpineTemplate
        /\ Cardinality({NodeTemplate, RustTemplate, PythonTemplate, AlpineTemplate}) = 4
        /\ ret.value[1][1] = "FROM"
        /\ \E k \in DOMAIN ret.value : ret.value[k][1] = "WORKDIR"

\* the Node template was returned for an analysis the Rust template applies
\* to as well
C23_Witness ==
    /\ GeneratedFromAnalysis
    /\ NodeApplies
    /\ RustApplies
    /\ ret = Return(NodeTemplate)

Analyzed == call = AnalyzeFromStructuredData /\ ret.kind # "none"

\* C24: for every input, analyze_from_structured_data returns a result with
\* success true, the given repo_id, a non-empty list of tools, a dockerfile
\* and an ai_analysis; the tools include one whose name contains cargo when
\* the languages include Rust and one whose name contains python when they
\* include Python
C24_AlwaysSucceeds ==
    Analyzed =>
        /\ ret.kind = "return"
        /\ ret.value.success = TRUE
        /\ ret.value.repo_id = RepoId
        /\ ret.value.mcp_tools # <<>>
        /\ {"dockerfile", "ai_analysis"} \subseteq DOMAIN ret.value
        /\ Listed(Rust, analysis.languages) =>
               \E k \in DOMAIN ret.value.mcp_tools :
                   Within(<<"c", "a", "r", "g", "o">>, ret.value.mcp_tools[k])
        /\ Listed(Python, analysis.languages) =>
               \E k \in DOMAIN ret.value.mcp_tools :
                   Within(<<"p", "y", "t", "h", "o", "n">>, ret.value.mcp_tools[k])

\* C30: whether AGENT_AVAILABLE is true or false, a call of
\* analyze_from_structured_data ends with a returned result and never by
\* an error of the recursion
C30_EndsWithResult ==
    Analyzed /\ agent_available \in {"true", "false"} => ret.kind = "return"

------------------------------------------------------------------------------
(* Properties of generate_mcp_server_template.                             *)

\* the reply to generate_mcp_server_template decoded to an object
TemplateDecoded ==
    /\ stage = GenerateServerTemplate
    /\ StageDone
    /\ Replied
    /\ Decodable(raw_response)
    /\ JsonKind(clean_json_response(raw_response).value) = "dict"

\* the object the reply decodes to
ReplyObject == JsonObject(clean_json_response(raw_response).value)

\* C25 (as stated): when the reply to generate_mcp_server_template decodes
\* to an object, the returned template has every key of the object with its
\* value unchanged, and the key documentation.md with the documentation
\* argument as its value
C25_KeysUnchanged ==
    TemplateDecoded =>
        /\ result.kind = "return"
        /\ result.value.type = "template"
        /\ \A key \in DOMAIN ReplyObject :
               /\ key \in DOMAIN result.value.items
               /\ result.value.items[key] = ReplyObject[key]
        /\ result.value.items[DocumentationMd] = documentation

\* C25 (amended): when the reply to generate_mcp_server_template decodes to
\* an object, the returned template has exactly the keys of the object and
\* the key documentation.md; documentation.md has the documentation
\* argument as its value, also when the object had that key, and every
\* other key has the value it had in the object
C25_OtherKeysUnchanged ==
    TemplateDecoded =>
        /\ result.kind = "return"
        /\ result.value.type = "template"
        /\ DOMAIN result.value.items = DOMAIN ReplyObject \cup {DocumentationMd}
        /\ \A key \in DOMAIN ReplyObject \ {DocumentationMd} :
               result.value.items[key] = ReplyObject[key]
        /\ result.value.items[DocumentationMd] = documentation

\* a template was returned for an object that has the key documentation.md
\* and another key
C25_Witness ==
    /\ TemplateDecoded
    /\ result.kind = "return"
    /\ DocumentationMd \in DOMAIN ReplyObject
    /\ <<"a">> \in DOMAIN ReplyObject
    /\ result.value.items[<<"a">>] = Json(<<"{", "\"", "b", "\"", ":", "1", "}">>)
    /\ result.value.items[DocumentationMd] = Str(<<"d">>)

------------------------------------------------------------------------------
(* Properties of generate_dockerfile_for_repository.                       *)

DockerfileDone == stage = GenerateDockerfile /\ StageDone

\* a line that is a fence marker, with or without a language tag
IsMarker(line) == StartsWith(Strip(line), Fence)

\* the reply is no Dockerfile: null, empty, of whitespace only, or of fence
\* markers only
NoDockerfile(value) ==
    \/ ~IsText(value)
    \/ AllSpace(value.val)
    \/ \A k \in DOMAIN SplitLines(value.val) : IsMarker(SplitLines(value.val)[k])

\* the canned Dockerfile of the first language of the analysis
CannedFor(languages) ==
    IF languages # <<>> /\ languages[1] \in {JavaScript, TypeScript}
    THEN "# Node.js Application Dockerfile"
    ELSE IF languages # <<>> /\ languages[1] = Python
    THEN "# Python Application Dockerfile"
    ELSE "# Generic Application Dockerfile"

\* C27: generate_dockerfile_for_repository never raises and never returns
\* an empty text; when the request raises or the reply is null, empty, of
\* whitespace only or of fence markers only, it returns the canned
\* Dockerfile of the first language: Node for JavaScript and TypeScript,
\* Python for Python, alpine otherwise
C27_CannedOnFailure ==
    DockerfileDone =>
        /\ result.kind = "return"
        /\ result.value # Str(<<>>)
        /\ ~Replied \/ NoDockerfile(raw_response) =>
               /\ result.value.type = "fallback"
               /\ result.value.template = CannedFor(analysis.languages)

------------------------------------------------------------------------------
(* Properties of the codebase analysis in a run of main.                   *)

\* analyze_codebase_context ended after an exception in its try block: the
\* request raised, or the reply was empty or did not decode
AnalysisFailed ==
    /\ ppc = AnalyzeCodebase
    /\ stage = AnalyzeCodebase
    /\ StageDone
    /\ caught.kind # "none"

\* the default analysis of the languages given
IsDefaultAnalysis(value, languages) ==
    /\ value.api_endpoints = <<>>
    /\ value.key_functions = <<>>
    /\ value.database_operations = <<>>
    /\ value.external_integrations = <<>>
    /\ value.architecture_pattern = "Unknown"
    /\ value.main_technologies = languages

\* C28: when the codebase analysis fails in a run of analyze-and-generate,
\* analyze_codebase_context raises nothing and returns the default analysis
\* (no endpoints, functions, database operations or integrations, pattern
\* Unknown, the detected languages as technologies), and main goes on to
\* the generation of the tools with that value, without exiting
C28_AnalysisFallbackContinues ==
    [][AnalysisFailed =>
           /\ result.kind = "return"
           /\ TypeOf(result.value) = "dict"
           /\ IsDefaultAnalysis(result.value, analysis.languages)
           /\ ppc' = GenerateTools
           /\ codebase_analysis' = result.value
           /\ exit_status' = 0 - 1]_vars

\* the tools were requested with the default analysis of a repository in
\* Python and JavaScript, after the analysis request had failed
C28_Witness ==
    /\ ppc = GenerateTools
    /\ requests = <<AnalyzeCodebase, GenerateTools>>
    /\ analysis.languages = <<Python, JavaScript>>
    /\ codebase_analysis.type = "fallback"
    /\ IsDefaultAnalysis(codebase_analysis, <<Python, JavaScript>>)

------------------------------------------------------------------------------
(* _fallback_file_selection (agent.py:181-219).                            *)

\* the box-drawing characters of a project tree
Tee == "<tee>"
Ell == "<ell>"
Bar == "<bar>"
Dash == "<dash>"

\* lines 185-190
important_patterns ==
    <<<<"p", "a", "c", "k", "a", "g", "e", ".", "j", "s", "o", "n">>,
      <<"C", "a", "r", "g", "o", ".", "t", "o", "m", "l">>,
      <<"p", "y", "p", "r", "o", "j", "e", "c", "t", ".", "t", "o", "m", "l">>,
      <<"r", "e", "q", "u", "i", "r", "e", "m", "e", "n", "t", "s", ".", "t", "x", "t">>,
      <<"g", "o", ".", "m", "o", "d">>,
      <<"p", "o", "m", ".", "x", "m", "l">>,
      <<"b", "u", "i", "l", "d", ".", "g", "r", "a", "d", "l", "e">>,
      <<"c", "o", "m", "p", "o", "s", "e", "r", ".", "j", "s", "o", "n">>,
      <<"D", "o", "c", "k", "e", "r", "f", "i", "l", "e">>,
      <<"d", "o", "c", "k", "e", "r", "-", "c", "o", "m", "p", "o", "s", "e", ".", "y", "m", "l">>,
      <<".", "e", "n", "v", ".", "e", "x", "a", "m", "p", "l", "e">>,
      <<"R", "E", "A", "D", "M", "E", ".", "m", "d">>,
      <<"R", "E", "A", "D", "M", "E", ".", "t", "x", "t">>>>

\* line 213
entry_patterns == <<<<"m", "a", "i", "n", ".">>, <<"i", "n", "d", "e", "x", ".">>, <<"a", "p", "p", ".">>, <<"s", "e", "r", "v", "e", "r", ".">>>>

\* line 219: the length the selection is cut to
FileLimit == 20

\* s.split(sep)[-1] from position k on: the text after the last of the
\* occurrences of sep, found from left to right without overlap
RECURSIVE LastPiece(_, _, _)
LastPiece(s, sep, k) ==
    IF FindText(s, sep, k) = 0 THEN SubSeq(s, k, Len(s))
    ELSE LastPiece(s, sep, FindText(s, sep, k) + Len(sep))

\* lines 194-197: the stripped line is empty or starts with a branch character
IsBranchLine(line) ==
    line = <<>> \/ line[1] \in {Tee, Ell, Bar}

\* lines 193-203: the file names read from the lines k.. of the tree
RECURSIVE TreeFiles(_, _)
TreeFiles(lines, k) ==
    IF k > Len(lines) THEN <<>>
    ELSE LET line == Strip(lines[k])
             filename == Strip(LastPiece(line, <<Dash, Dash>>, 1))
         IN  (IF /\ IsBranchLine(line)
                 /\ Within(<<Dash, Dash>>, line)
                 /\ filename # <<>>
                 /\ ~EndsWith(filename, <<"/">>)
              THEN <<filename>>
              ELSE <<>>) \o TreeFiles(lines, k + 1)

\* lines 207-210 and 214-217: the files that satisfy test(pattern, file), by
\* pattern and then by file
RECURSIVE Matches(_, _, _, _)
Matches(patterns, names, test(_, _), p) ==
    IF p > Len(patterns) THEN <<>>
    ELSE LET Hit(file) == test(patterns[p], file)
         IN  SelectSeq(names, Hit) \o Matches(patterns, names, test, p + 1)

IsEntryPoint(pattern, file) == StartsWith(file, pattern)

\* lines 205-217: selected, with its repetitions
Selected(tree) ==
    LET names == TreeFiles(SplitLines(tree), 1)
    IN  Matches(important_patterns, names, Within, 1)
        \o Matches(entry_patterns, names, IsEntryPoint, 1)

\* the elements of a list, each once, in the order of their first occurrence
RECURSIVE Distinct(_)
Distinct(list) ==
    IF list = <<>> THEN <<>>
    ELSE LET front == Distinct(SubSeq(list, 1, Len(list) - 1))
             last == list[Len(list)]
         IN  IF InList(last, front) THEN front ELSE Append(front, last)

Rotation(list, r) ==
    [k \in 1..Len(list) |-> list[((k + r - 1) % Len(list)) + 1]]

Reverse(list) == [k \in 1..Len(list) |-> list[Len(list) + 1 - k]]

\* line 219, list(set(selected)): the order in which a set of strings is
\* iterated follows the hashes of the strings, which the interpreter draws
\* anew for each process.  The orders taken here are the rotations of the
\* elements and their reversals: every order of a set of up to three
\* elements, and some of the orders of a larger one.
Orders(elements) ==
    IF elements = <<>> THEN {<<>>}
    ELSE {Rotation(elements, r) : r \in 0..(Len(elements) - 1)}
         \cup {Reverse(Rotation(elements, r)) : r \in 0..(Len(elements) - 1)}

\* the lists _fallback_file_selection may return for a tree
fallback_file_selection(tree) ==
    {Head_(order, FileLimit) : order \in Orders(Distinct(Selected(tree)))}

MaxRuns == 2

\* one execution of _fallback_file_selection, in a process of its own
SelectFallback ==
    /\ Len(runs) < MaxRuns
    /\ \E selection \in fallback_file_selection(tree_structure) :
           runs' = Append(runs, selection)
    /\ UNCHANGED tree_structure

MaxTreeLines == 3

\* the root line of a tree
RootLine == <<"p", "r", "o", "j", "e", "c", "t", "/">>

\* lines of a tree below its root: files and a directory with its files
TreeLines ==
    {<<Tee, Dash, Dash, " ", "p", "a", "c", "k", "a", "g", "e", ".", "j", "s", "o", "n">>,
     <<Tee, Dash, Dash, " ", "s", "r", "c", "/">>,
     <<Bar, " ", " ", " ", Tee, Dash, Dash, " ", "i", "n", "d", "e", "x", ".", "t", "s">>,
     <<Bar, " ", " ", " ", Ell, Dash, Dash, " ", "p", "a", "c", "k", "a", "g", "e", ".", "j", "s", "o", "n">>,
     <<Ell, Dash, Dash, " ", "R", "E", "A", "D", "M", "E", ".", "m", "d">>}

\* the level of a line: 0 below the root, 1 in a directory below it
Level(line) == IF line[1] = Bar THEN 1 ELSE 0

IsDirectoryLine(line) == EndsWith(line, <<"/">>)

\* a line of level 1 follows a directory line or a line of level 1
NestedAfterDirectory(lines) ==
    \A k \in DOMAIN lines :
        Level(lines[k]) = 1 =>
            k > 1 /\ (IsDirectoryLine(lines[k - 1]) \/ Level(lines[k - 1]) = 1)

\* a tree with one file more than the limit, each an entry point
ManyFiles ==
    [k \in 1..(FileLimit + 1) |-> <<Tee, Dash, Dash, " ", "m", "a", "i", "n", ".">> \o <<LowerCase[k]>>]

\* the project trees
Trees ==
    {JoinLines(<<RootLine>> \o lines) :
         lines \in {ls \in UNION {[1..n -> TreeLines] : n \in 0..MaxTreeLines} :
                        NestedAfterDirectory(ls)}}
    \cup {JoinLines(<<RootLine>> \o ManyFiles)}

SelectionInit ==
    /\ tree_structure \in Trees
    /\ runs = <<>>
    /\ analysis = Analysis(<<>>, <<>>)
    /\ call = "none"
    /\ file_paths = {}
    /\ agent_available = "undefined"
    /\ recursion_depth = 0
    /\ ret = [kind |-> "none"]
    /\ TruncateIdle
    /\ CleanIdle
    /\ StageIdle
    /\ MainIdle
    /\ NoArguments

SelectionNext ==
    \/ SelectFallback /\ UNCHANGED <<tvars, cvars, svars, pvars, analysis, dvars>>

SelectionSpec == SelectionInit /\ [][SelectionNext]_vars

------------------------------------------------------------------------------
(* Properties of _fallback_file_selection.                                 *)

\* the position of the branch character of a line, 0 if it has none
BranchAt(line) ==
    IF FindFrom(line, Tee, 1) # 0 THEN FindFrom(line, Tee, 1)
    ELSE FindFrom(line, Ell, 1)

\* the name a line lists, after its branch and its two dashes
ListedName(line) == Strip(SubSeq(line, BranchAt(line) + 3, Len(line)))

\* the relative paths of the files the lines k.. list, dirs being the
\* directories the line k is in
RECURSIVE PathsFrom(_, _, _)
PathsFrom(lines, k, dirs) ==
    IF k > Len(lines) THEN {}
    ELSE IF BranchAt(lines[k]) = 0 THEN PathsFrom(lines, k + 1, dirs)
    ELSE LET parents == SubSeq(dirs, 1, (BranchAt(lines[k]) - 1) \div 4)
             name == ListedName(lines[k])
         IN  IF EndsWith(name, <<"/">>)
             THEN PathsFrom(lines, k + 1, Append(parents, name))
             ELSE {Concat(parents) \o name} \cup PathsFrom(lines, k + 1, parents)

ListedPaths(tree) == PathsFrom(SplitLines(tree), 1, <<>>)

NoDuplicate(list) ==
    \A i, j \in DOMAIN list : list[i] = list[j] => i = j

\* C26: the list the pattern-based selection returns is no longer than the
\* file limit, holds no entry twice, and each of its entries is the
\* relative path of a file the tree lists, also for a file in a directory
C26_ListedRelativePaths ==
    \A n \in DOMAIN runs :
        /\ Len(runs[n]) <= FileLimit
        /\ NoDuplicate(runs[n])
        /\ \A k \in DOMAIN runs[n] : runs[n][k] \in ListedPaths(tree_structure)

\* C29: two executions of _fallback_file_selection on the same tree return
\* the same list, the same elements in the same order, also when more
\* than 20 files match and the list is cut
C29_SameListEveryRun ==
    \A m, n \in DOMAIN runs : runs[m] = runs[n]

====
